---------------------------- MODULE Spec2Model ----------------------------
(***************************************************************************)
(* A model of the yt-mpv archival pipeline: existence check, multi-format  *)
(* download, upload with re-check, and cleanup of the local pair.          *)
(*                                                                         *)
(* One run of one entry point is modelled per behaviour.  The entry points *)
(* are                                                                     *)
(*   "launcher"  core/launcher.py   main                                   *)
(*   "archive"   core/archive.py    archive_url called on its own          *)
(*   "ytdlp"     archive/yt_dlp.py  archive_url (the CLI archive command)  *)
(*   "legacy"    launch.py          main                                   *)
(* The remote archive, the downloader, the player and the file system are  *)
(* the environment: every outcome they can produce is a choice (\E).       *)
(***************************************************************************)
EXTENDS Naturals, Integers, Sequences, FiniteSets, TLC

(***************************************************************************)
(* Bounds of the model.                                                    *)
(***************************************************************************)
\* Longest list of per-file responses the upload call returns.
MaxResponses == 2
\* Longest standard output (in lines) of one downloader invocation.
MaxLines == 1
\* The cache manager: mtimes and the clock in days, the purge thresholds, the
\* faults of one call.
MaxMtime == 1
MaxNow == 2
MaxAgeDays == 1
MaxFaults == 1
\* The query fields of a raw URL.
MaxFields == 2
\* The calls of generate_archive_id that are followed.
MaxIdCalls == 2

(***************************************************************************)
(* Values.                                                                 *)
(***************************************************************************)
None == "None"
NoFile == [extractor |-> "", id |-> "", exts |-> <<>>]

YtUrl == "https://www.youtube.com/watch?v=dQw4w9WgXcQ"
GenUrl == "https://vimeo.com/12345"
Urls == {YtUrl, GenUrl}

\* "https://www.example.com/" + "a" * 200, a URL of 224 characters.
RECURSIVE Repeat(_, _)
Repeat(str, n) == IF n = 0 THEN "" ELSE str \o Repeat(str, n - 1)
LongUrl == "https://www.example.com/" \o Repeat("a", 200)

\* os.getlogin() of the operator running the pipeline.
Login == "operator"

\* The status upload_to_archive accepts, and the statuses a per-file response may carry.
StatusOk == 200
Statuses == {StatusOk, 503}

RECURSIVE SeqsUpTo(_, _)
SeqsUpTo(S, n) ==
  IF n = 0 THEN {<<>>}
  ELSE LET shorter == SeqsUpTo(S, n - 1)
       IN  shorter \cup {Append(s, x) : s \in {t \in shorter : Len(t) = n - 1}, x \in S}

Range(s) == {s[i] : i \in 1..Len(s)}

(***************************************************************************)
(* Identifiers.                                                            *)
(***************************************************************************)
\* hashlib.sha1(url.encode()).hexdigest()[:8], tabulated on the model's URLs.
Sha1Hex8(url) ==
  CASE url = YtUrl -> "df2c6f7a"
    [] url = GenUrl -> "1f284b6e"
    [] url = LongUrl -> "7773dd8d"
    [] OTHER -> "00000000"

\* hashlib.md5(url.encode()).hexdigest()[:11], tabulated on the model's URLs.
Md5Hex11(url) ==
  CASE url = YtUrl -> "75170fc230c"
    [] url = GenUrl -> "e1bdaac77ef"
    [] url = LongUrl -> "80528421aee"
    [] OTHER -> "00000000000"

\* generate_archive_id: "yt-mpv-<username>-<hash8>"; username None is os.getlogin().
GenerateArchiveId(url, username) ==
  LET user == IF username = None THEN Login ELSE username
  IN  "yt-mpv-" \o user \o "-" \o Sha1Hex8(url)

DetailsUrl(identifier) == "https://archive.org/details/" \o identifier

\* extract_video_id: the YouTube pattern, else a hash of the URL under "generic".
ExtractVideoId(url) ==
  IF url = YtUrl THEN [id |-> "dQw4w9WgXcQ", extractor |-> "youtube"]
  ELSE [id |-> Md5Hex11(url), extractor |-> "generic"]

(***************************************************************************)
(* File names of the cache directory.  A name                              *)
(* "yt-mpv-<extractor>-<id>.<e1>.<e2>" is the record of its extractor, id  *)
(* and the sequence of its dot-separated extensions.                       *)
(***************************************************************************)
File(extractor, id, exts) == [extractor |-> extractor, id |-> id, exts |-> exts]

\* pathlib's Path.suffix: the last dot-separated component, with its dot.
Suffix(f) == IF Len(f.exts) = 0 THEN "" ELSE "." \o f.exts[Len(f.exts)]

\* pathlib's Path.with_suffix(s): the last component replaced by the components of s.
WithSuffix(f, newExts) ==
  [f EXCEPT !.exts = (IF Len(f.exts) = 0 THEN <<>> ELSE SubSeq(f.exts, 1, Len(f.exts) - 1)) \o newExts]

\* The name ends in ".info.json": a sidecar file.
IsSidecar(f) ==
  /\ Len(f.exts) >= 2
  /\ f.exts[Len(f.exts) - 1] = "info"
  /\ f.exts[Len(f.exts)] = "json"

SameBase(f, g) == f.extractor = g.extractor /\ f.id = g.id

\* What the downloader names the files of a URL: %(extractor)s and %(id)s are the
\* downloader's own, which for a non-YouTube URL are not the ones extract_video_id guesses.
DownloaderBase(url) ==
  IF url = YtUrl THEN [extractor |-> "youtube", id |-> "dQw4w9WgXcQ"]
  ELSE [extractor |-> "vimeo", id |-> "12345"]

MediaOf(url) == File(DownloaderBase(url).extractor, DownloaderBase(url).id, <<"mp4">>)
SidecarOf(url) == File(DownloaderBase(url).extractor, DownloaderBase(url).id, <<"info", "json">>)

\* The name "--print filename --skip-download" may predict: the extension of the
\* format that is downloaded later need not be the predicted one.
PredictedNames(url) ==
  {MediaOf(url), File(DownloaderBase(url).extractor, DownloaderBase(url).id, <<"webm">>)}

\* The media file of another video of the same site whose id is "<id>.info".
DottedMediaOf(url) == File(DownloaderBase(url).extractor, DownloaderBase(url).id, <<"info", "mp4">>)

(***************************************************************************)
(* The cache directory: its files, ordered by modification time, oldest    *)
(* first.  Writing a file (the downloader overwrites) makes it the newest. *)
(***************************************************************************)
Exists(dir, f) == f \in Range(dir)

RECURSIVE Without(_, _)
Without(dir, f) ==
  IF dir = <<>> THEN <<>>
  ELSE IF Head(dir) = f THEN Without(Tail(dir), f)
  ELSE <<Head(dir)>> \o Without(Tail(dir), f)

WriteFile(dir, f) == Append(Without(dir, f), f)

RECURSIVE WriteAll(_, _)
WriteAll(dir, fs) == IF fs = <<>> THEN dir ELSE WriteAll(WriteFile(dir, Head(fs)), Tail(fs))

(***************************************************************************)
(* The downloader's standard output: lines that are a log line (they start *)
(* with "["), or the path of a file of the cache directory.                *)
(***************************************************************************)
LogLine == [kind |-> "log", file |-> NoFile]
PathLine(f) == [kind |-> "path", file |-> f]

Lines(u) == {LogLine, PathLine(MediaOf(u)), PathLine(SidecarOf(u))}
Stdouts(u) == SeqsUpTo(Lines(u), MaxLines)

\* What one invocation may write: nothing, the sidecar, the media file, or both
\* (the sidecar is written before the download starts).
Writes(u) == {<<>>, <<SidecarOf(u)>>, <<MediaOf(u)>>, <<SidecarOf(u), MediaOf(u)>>}

\* The media files among the files an invocation wrote.
MediaWritten(written) == {f \in Range(written) : ~IsSidecar(f)}

\* The files that are not written to the end, after one invocation: "--no-part"
\* writes straight to the final name, so an invocation that did not finish (it
\* failed, or the run was interrupted) leaves what it has written so far under
\* that name; an invocation that finished has written its files to the end.
PartialAfter(before, finished, written) ==
  IF finished THEN before \ MediaWritten(written) ELSE before \cup MediaWritten(written)

\* download_video's table of format specifications.
DownloadFormats == <<"b[ext=mp4]", "22/best[height<=720][ext=mp4]", "18", "worst">>

\* "line and not line.startswith('[') and dl_dir.name in line": the printed paths
\* are paths of the cache directory, whose name they contain.
IsPrintedPath(line) == line.kind = "path"

\* The stdout parse of download_video: the first printed path that exists and
\* whose Path.suffix is not ".info.json".
RECURSIVE ParsePrintedFile(_, _)
ParsePrintedFile(stdout, dir) ==
  IF stdout = <<>> THEN NoFile
  ELSE LET line == Head(stdout)
       IN  IF /\ IsPrintedPath(line)
              /\ Exists(dir, line.file)
              /\ Suffix(line.file) # ".info.json"
           THEN line.file
           ELSE ParsePrintedFile(Tail(stdout), dir)

(***************************************************************************)
(* cleanup_cache_files / remove: each of the two files that exists is      *)
(* unlinked; an unlink may fail (failVideo, failInfo); the result is true  *)
(* iff no attempted unlink failed.                                         *)
(***************************************************************************)
\* Mutant of CleanupCacheFiles: a failed unlink of the video ends the loop.
CleanupCacheFiles_StopAtFailure(dir, video, info, failVideo, failInfo) ==
  LET stopped == Exists(dir, video) /\ failVideo
      afterVideo == IF Exists(dir, video) /\ ~failVideo THEN Without(dir, video) ELSE dir
      afterInfo ==
        IF ~stopped /\ Exists(afterVideo, info) /\ ~failInfo
        THEN Without(afterVideo, info) ELSE afterVideo
  IN  [dir |-> afterInfo, ok |-> ~stopped /\ ~(Exists(afterVideo, info) /\ failInfo)]

CleanupCacheFiles(dir, video, info, failVideo, failInfo) ==
  LET afterVideo == IF Exists(dir, video) /\ ~failVideo THEN Without(dir, video) ELSE dir
      afterInfo == IF Exists(afterVideo, info) /\ ~failInfo THEN Without(afterVideo, info) ELSE afterVideo
  IN  [dir |-> afterInfo,
       ok |-> ~(Exists(dir, video) /\ failVideo) /\ ~(Exists(afterVideo, info) /\ failInfo)]

(***************************************************************************)
(* The cache manager (utils/cache.py, utils/fs.py).  The regular files of   *)
(* the cache directory are the sequence dir; mt gives each its mtime, in    *)
(* days; out holds the entries that are not regular files directly inside   *)
(* the cache directory.                                                     *)
(***************************************************************************)
CacheDir == "cache"

Entry(place, kind, file) == [place |-> place, kind |-> kind, file |-> file]

\* A subdirectory of the cache directory, a file in it, and a file elsewhere.
Outside ==
  {Entry(CacheDir, "dir", File("", "thumbs", <<>>)),
   Entry("cache/thumbs", "file", MediaOf(YtUrl)),
   Entry("home", "file", MediaOf(GenUrl))}

\* The files the cache directory may hold when the manager is called.
ManagedFiles == {MediaOf(YtUrl), SidecarOf(YtUrl), MediaOf(GenUrl)}

\* st_size of a file, in bytes.
SizeOf(f) ==
  CASE f = MediaOf(YtUrl) -> 4
    [] f = MediaOf(GenUrl) -> 2
    [] OTHER -> 1

RECURSIVE SumSizes(_)
SumSizes(files) ==
  IF files = {} THEN 0
  ELSE LET f == CHOOSE g \in files : TRUE IN SizeOf(f) + SumSizes(files \ {f})

Entries(dir, out) == {Entry(CacheDir, "file", f) : f \in Range(dir)} \cup out

\* The orders in which iterdir may yield the members of S.
Orders(S) ==
  {s \in SeqsUpTo(S, Cardinality(S)) : Len(s) = Cardinality(S) /\ Range(s) = S}

\* Mutant of InDirectory: the walk descends and leaves the directory.
InDirectory_Anywhere(e, d) == TRUE

\* cache_dir.iterdir() yields the entries directly inside the directory.
InDirectory(e, d) == e.place = d

RECURSIVE SetToSeq(_)
SetToSeq(S) ==
  IF S = {} THEN <<>>
  ELSE LET x == CHOOSE y \in S : TRUE IN <<x>> \o SetToSeq(S \ {x})

\* The orders in which iterdir may yield the directory: its files in any order;
\* the entries that are not files are skipped wherever they come, and come first.
IterOrders(dir, out) ==
  LET here == {e \in Entries(dir, out) : InDirectory(e, CacheDir)}
      others == {e \in here : e.kind # "file"}
  IN  {SetToSeq(others) \o s : s \in Orders(here \ others)}

\* Path.is_file().
IsFileEntry(e) == e.kind = "file"

\* st_mtime of an entry (entries outside the cache directory are old).
MtimeOf(e, mt) == IF e.place = CacheDir /\ e.file \in DOMAIN mt THEN mt[e.file] ELSE 0

\* The namedtuple CacheFileInfo built from item.stat() at time t.
CacheFileInfo(e, mt, t) ==
  [path |-> e, size |-> SizeOf(e.file), age_days |-> t - MtimeOf(e, mt), mtime |-> MtimeOf(e, mt)]

\* The faults of one call: at most one per file.  "stat": the file disappears
\* between is_file() and stat(); "vanished": it disappears between the scan
\* and its unlink; "denied": its unlink raises and the file stays.
FaultKinds == {"stat", "vanished", "denied"}

FaultSets(files, kinds) ==
  {fs \in SUBSET (files \X kinds) :
     /\ Cardinality(fs) <= MaxFaults
     /\ \A a \in fs, b \in fs : a[1] = b[1] => a = b}

Faulted(faults, kind) == {a[1] : a \in {b \in faults : b[2] = kind}}

\* list.sort(key=age_days, reverse=True) is stable: x goes behind every item
\* that is not younger than x.
RECURSIVE InsertByAge(_, _)
InsertByAge(sorted, x) ==
  IF sorted = <<>> THEN <<x>>
  ELSE IF Head(sorted).age_days >= x.age_days
  THEN <<Head(sorted)>> \o InsertByAge(Tail(sorted), x)
  ELSE <<x>> \o sorted

RECURSIVE SortInto(_, _)
SortInto(sorted, rest) ==
  IF rest = <<>> THEN sorted ELSE SortInto(InsertByAge(sorted, Head(rest)), Tail(rest))

\* Mutant of SortOldestFirst: the list stays in iterdir order.
SortOldestFirst_Unsorted(items) == items

SortOldestFirst(items) == SortInto(<<>>, items)

RECURSIVE MapInfo(_, _, _)
MapInfo(order, mt, t) ==
  IF order = <<>> THEN <<>>
  ELSE <<CacheFileInfo(Head(order), mt, t)>> \o MapInfo(Tail(order), mt, t)

\* _get_cache_file_info: the regular files among the entries, each with its
\* stat, oldest first.  A stat that fails is not caught: the scan raises.
GetCacheFileInfo(order, mt, t, faults) ==
  LET files == SelectSeq(order, IsFileEntry)
  IN  [raised |-> \E i \in 1..Len(files) : files[i].file \in Faulted(faults, "stat"),
       list |-> SortOldestFirst(MapInfo(files, mt, t))]

\* The loop body shared by purge_cache and clean_all_cache: each target is
\* unlinked inside try/except OSError; only a successful unlink is counted.
RECURSIVE UnlinkAll(_, _, _)
UnlinkAll(targets, faults, acc) ==
  IF targets = <<>> THEN acc
  ELSE LET item == Head(targets)
           fails == item.path.file \in Faulted(faults, "denied") \cup Faulted(faults, "vanished")
       IN  UnlinkAll(Tail(targets), faults,
                     IF fails THEN acc
                     ELSE [deleted |-> acc.deleted \cup {item.path},
                           count |-> acc.count + 1,
                           bytes |-> acc.bytes + item.size])

NothingDeleted == [deleted |-> {}, count |-> 0, bytes |-> 0]

\* Mutant of IsOld: a file whose age equals the threshold is purged too.
IsOld_OrEqual(age, maxAge) == age >= maxAge

\* "if file_info_item.age_days > max_age_days".
IsOld(age, maxAge) == age > maxAge

PurgeTargets(list, maxAge) ==
  LET Old(item) == IsOld(item.age_days, maxAge)
  IN  SelectSeq(list, Old)

\* Mutant of ClearTargets: the files modified today are left.
ClearTargets_Aged(list) ==
  LET Aged(item) == item.age_days > 0
  IN  SelectSeq(list, Aged)

\* clean_all_cache unlinks every file of the scan.
ClearTargets(list) == list

\* What a call of the manager did: whether it raised, the entries it unlinked,
\* the scan it returned (get_cache_info) and the count and bytes it returned.
Outcome(raised, done, list) ==
  [raised |-> raised, deleted |-> done.deleted, count |-> done.count, bytes |-> done.bytes,
   listed |-> list]

\* utils/cache.py purge_cache.
PurgeCacheCall(order, mt, t, maxAge, faults) ==
  LET scan == GetCacheFileInfo(order, mt, t, faults)
  IN  IF scan.raised THEN Outcome(TRUE, NothingDeleted, <<>>)
      ELSE Outcome(FALSE, UnlinkAll(PurgeTargets(scan.list, maxAge), faults, NothingDeleted), <<>>)

\* utils/cache.py clean_all_cache.
CleanAllCache(order, mt, t, faults) ==
  LET scan == GetCacheFileInfo(order, mt, t, faults)
  IN  IF scan.raised THEN Outcome(TRUE, NothingDeleted, <<>>)
      ELSE Outcome(FALSE, UnlinkAll(ClearTargets(scan.list), faults, NothingDeleted), <<>>)

RECURSIVE SumOfSizes(_)
SumOfSizes(list) == IF list = <<>> THEN 0 ELSE Head(list).size + SumOfSizes(Tail(list))

\* utils/cache.py get_cache_info: (file_count, total_size, details).
GetCacheInfo(order, mt, t, faults) ==
  LET scan == GetCacheFileInfo(order, mt, t, faults)
  IN  IF scan.raised THEN Outcome(TRUE, NothingDeleted, <<>>)
      ELSE Outcome(FALSE,
                   [deleted |-> {}, count |-> Len(scan.list), bytes |-> SumOfSizes(scan.list)],
                   scan.list)

\* utils/fs.py purge_cache: one pass in iterdir order; the stat of the age is
\* outside the try, so a failing stat ends the pass where it stands.
RECURSIVE FsPurgeLoop(_, _, _, _, _, _)
FsPurgeLoop(order, mt, t, maxAge, faults, acc) ==
  IF order = <<>> THEN Outcome(FALSE, acc, <<>>)
  ELSE LET e == Head(order)
           rest == Tail(order)
       IN  IF ~IsFileEntry(e) THEN FsPurgeLoop(rest, mt, t, maxAge, faults, acc)
           ELSE IF e.file \in Faulted(faults, "stat") THEN Outcome(TRUE, acc, <<>>)
           ELSE IF ~IsOld(t - MtimeOf(e, mt), maxAge)
           THEN FsPurgeLoop(rest, mt, t, maxAge, faults, acc)
           ELSE FsPurgeLoop(rest, mt, t, maxAge, faults,
                            UnlinkAll(<<CacheFileInfo(e, mt, t)>>, faults, acc))

FsPurgeCache(order, mt, t, maxAge, faults) ==
  FsPurgeLoop(order, mt, t, maxAge, faults, NothingDeleted)

\* The entries gone after a call: those it unlinked and those that disappeared.
Gone(dir, out, done, faults) ==
  done.deleted \cup
  {e \in Entries(dir, out) :
     e.place = CacheDir /\ e.file \in Faulted(faults, "stat") \cup Faulted(faults, "vanished")}

DirAfter(dir, gone) ==
  LET Stays(f) == Entry(CacheDir, "file", f) \notin gone
  IN  SelectSeq(dir, Stays)

MtimesAfter(mt, dirAfter) == [f \in Range(dirAfter) |-> mt[f]]

\* The manager before its first call.
NoCall ==
  [op |-> "none", maxAge |-> 0, at |-> 0, faults |-> {}, before |-> <<>>,
   beforeMt |-> <<>>, out |-> Outcome(FALSE, NothingDeleted, <<>>),
   pair |-> [video |-> NoFile, info |-> NoFile, failVideo |-> FALSE, failInfo |-> FALSE,
             ok |-> TRUE],
   prev |-> "none",
   last |-> [op |-> "none", raised |-> FALSE, exit |-> -1]]

(***************************************************************************)
(* URLs (utils/url.py, utils.py, launch.py, core/launcher.py main).  A URL  *)
(* is the sequence of its characters, a run of letters or digits that no    *)
(* operation cuts being kept as one item.                                   *)
(***************************************************************************)
StartsWith(s, prefix) == Len(s) >= Len(prefix) /\ SubSeq(s, 1, Len(prefix)) = prefix

Drop(s, n) == SubSeq(s, n + 1, Len(s))

\* str.find: the first place where sub starts in s, 0 if nowhere.
IndexOf(s, sub) ==
  LET places == {i \in 1..(Len(s) + 1 - Len(sub)) : SubSeq(s, i, i + Len(sub) - 1) = sub}
  IN  IF places = {} THEN 0 ELSE CHOOSE i \in places : \A j \in places : i <= j

Contains(s, sub) == IndexOf(s, sub) # 0

\* s.split(sep, 1).
SplitOnce(s, sep) ==
  IF ~Contains(s, sep) THEN <<s>>
  ELSE <<SubSeq(s, 1, IndexOf(s, sep) - 1), Drop(s, IndexOf(s, sep) + Len(sep) - 1)>>

\* s.split(sep).
RECURSIVE Split(_, _)
Split(s, sep) ==
  IF ~Contains(s, sep) THEN <<s>>
  ELSE <<SplitOnce(s, sep)[1]>> \o Split(SplitOnce(s, sep)[2], sep)

\* sep.join(pieces).
RECURSIVE Join(_, _)
Join(pieces, sep) ==
  IF pieces = <<>> THEN <<>>
  ELSE IF Len(pieces) = 1 THEN pieces[1]
  ELSE pieces[1] \o sep \o Join(Tail(pieces), sep)

\* s.replace(old, new, 1).
ReplaceFirst(s, old, new) ==
  IF ~Contains(s, old) THEN s
  ELSE SubSeq(s, 1, IndexOf(s, old) - 1) \o new \o Drop(s, IndexOf(s, old) + Len(old) - 1)

\* The characters a percent escape of the model's URLs stands for.
HexCodes == {"3A", "2F", "25", "20"}

Unescaped(hex) ==
  CASE hex = "3A" -> ":"
    [] hex = "2F" -> "/"
    [] hex = "25" -> "%"
    [] hex = "20" -> " "

\* urllib.parse.unquote: one pass; every "%" followed by two hex digits is
\* replaced by the character, what it yields is not looked at again.
RECURSIVE Unquote(_)
Unquote(s) ==
  IF s = <<>> THEN <<>>
  ELSE IF s[1] = "%" /\ Len(s) >= 2 /\ s[2] \in HexCodes
  THEN <<Unescaped(s[2])>> \o Unquote(Drop(s, 2))
  ELSE <<s[1]>> \o Unquote(Tail(s))

\* s.replace("+", " ").
RECURSIVE PlusToSpace(_)
PlusToSpace(s) ==
  IF s = <<>> THEN <<>>
  ELSE <<IF s[1] = "+" THEN " " ELSE s[1]>> \o PlusToSpace(Tail(s))

\* urllib.parse.parse_qs(query, keep_blank_values=True), then the first value
\* of each name: the pairs (name, value) in the order of the first occurrence
\* of the name; names and values have "+" replaced and are unquoted.
RECURSIVE ParseQs(_, _)
ParseQs(fields, seen) ==
  IF fields = <<>> THEN <<>>
  ELSE LET field == Head(fields)
           nv == SplitOnce(field, <<"=">>)
           name == Unquote(PlusToSpace(nv[1]))
           value == IF Len(nv) = 2 THEN Unquote(PlusToSpace(nv[2])) ELSE <<>>
       IN  IF field = <<>> \/ name \in seen THEN ParseQs(Tail(fields), seen)
           ELSE <<[name |-> name, value |-> value]>> \o ParseQs(Tail(fields), seen \cup {name})

Slashes == <<"/", "/">>
XYtMpv == <<"x-yt-mpv", ":">>
XYtMpvs == <<"x-yt-mpv", "s", ":">>
Http == <<"http", ":">>
Https == <<"http", "s", ":">>

\* utils/url.py parse_url_params.
ParseUrlParams(u) ==
  LET query ==
        IF StartsWith(u, XYtMpv \o Slashes) \/ StartsWith(u, XYtMpvs \o Slashes)
        THEN LET parts == SplitOnce(u, Slashes)
             IN  IF Len(parts) > 1 /\ Contains(parts[2], <<"?">>)
                 THEN SplitOnce(parts[2], <<"?">>)[2] ELSE <<>>
        ELSE IF Contains(u, <<"?">>) THEN SplitOnce(u, <<"?">>)[2]
        ELSE <<>>
  IN  IF query = <<>> THEN <<>> ELSE ParseQs(Split(query, <<"&">>), {})

\* "name in params" and params.get(name, default).
HasParam(params, name) == \E i \in 1..Len(params) : params[i].name = name

GetParam(params, name, default) ==
  IF HasParam(params, name)
  THEN params[CHOOSE i \in 1..Len(params) : params[i].name = name].value
  ELSE default

\* Mutant of NewScheme: both custom schemes become "http:".
NewScheme_AlwaysHttp(old) == Http

\* scheme_replacements.
NewScheme(old) == IF old = XYtMpvs THEN Https ELSE Http

\* The loop over scheme_replacements, "x-yt-mpvs:" first.
ReplaceScheme(u) ==
  IF StartsWith(u, XYtMpvs) THEN ReplaceFirst(u, XYtMpvs, NewScheme(XYtMpvs))
  ELSE IF StartsWith(u, XYtMpv) THEN ReplaceFirst(u, XYtMpv, NewScheme(XYtMpv))
  ELSE u

\* utils/url.py get_real_url.
GetRealUrl(raw_url) ==
  IF HasParam(ParseUrlParams(raw_url), <<"url">>)
  THEN Unquote(GetParam(ParseUrlParams(raw_url), <<"url">>, <<>>))
  ELSE ReplaceScheme(raw_url)

\* launch.py get_real_url.
LaunchGetRealUrl(raw_url) == ReplaceScheme(raw_url)

\* utils.py get_real_url: the scheme of the part before "?" is replaced and the
\* parameters that start with "archive=" are dropped.
UtilsGetRealUrl(raw_url) ==
  LET parts == SplitOnce(raw_url, <<"?">>)
      url_part == ReplaceScheme(parts[1])
      NotArchive(param) == ~StartsWith(param, <<"archive", "=">>)
      params == IF Len(parts) > 1 THEN SelectSeq(Split(parts[2], <<"&">>), NotArchive) ELSE <<>>
  IN  IF params # <<>> THEN url_part \o <<"?">> \o Join(params, <<"&">>) ELSE url_part

\* Mutant of IsHttpUrl: any scheme followed by "//" is accepted.
IsHttpUrl_AnyScheme(u) == Contains(u, Slashes)

\* re.match(r"^https?://", url).
IsHttpUrl(u) == StartsWith(u, Http \o Slashes) \/ StartsWith(u, Https \o Slashes)

\* Mutant of LauncherUrl: archiving is skipped only when the parameter is "0".
LauncherUrl_ArchiveUnlessZero(raw_url) ==
  LET params == ParseUrlParams(raw_url)
      target == IF HasParam(params, <<"url">>)
                THEN Unquote(GetParam(params, <<"url">>, <<>>))
                ELSE GetRealUrl(raw_url)
  IN  [url |-> target,
       should_archive |-> GetParam(params, <<"archive">>, <<"1">>) # <<"0">>,
       valid |-> IsHttpUrl(target)]

\* core/launcher.py main, from the raw URL to the URL validation.
LauncherUrl(raw_url) ==
  LET params == ParseUrlParams(raw_url)
      target == IF HasParam(params, <<"url">>)
                THEN Unquote(GetParam(params, <<"url">>, <<>>))
                ELSE GetRealUrl(raw_url)
  IN  [url |-> target,
       should_archive |-> GetParam(params, <<"archive">>, <<"1">>) = <<"1">>,
       valid |-> IsHttpUrl(target)]

\* The raw URLs handed to the launcher: a scheme, "//", a host and path, and
\* query fields joined by "&".
UrlSchemes == {XYtMpv, XYtMpvs, Http, Https, <<"ftp", ":">>}

UrlPaths == {<<>>, <<"y.test", "/", "watch">>, <<"y.test", "/", "x-yt-mpv", ":", "v">>}

\* "https%3A%2F%2Fy.test%2Fv", the same followed by "%2520b", and by "+b".
EncodedTargets ==
  LET plain == <<"http", "s", "%", "3A", "%", "2F", "%", "2F", "y.test", "%", "2F", "v">>
  IN  {plain, plain \o <<"%", "25", "20", "b">>, plain \o <<"+", "b">>}

UrlFields ==
  {<<"v", "=", "abc">>, <<"t", "=", "1">>, <<"archive", "=", "0">>, <<"archive", "=", "1">>}
  \cup {<<"url", "=">> \o target : target \in EncodedTargets}

RawUrls ==
  [scheme : UrlSchemes, path : UrlPaths, fields : SeqsUpTo(UrlFields, MaxFields)]

\* The string of a raw URL.
Assemble(r) ==
  r.scheme \o Slashes \o r.path \o
  (IF r.fields = <<>> THEN <<>> ELSE <<"?">> \o Join(r.fields, <<"&">>))

\* The string of a URL.
RECURSIVE Text(_)
Text(u) == IF u = <<>> THEN "" ELSE u[1] \o Text(Tail(u))

\* The raw URLs a run of a launcher is started with (sys.argv[1]): the two URLs
\* of the model under the custom scheme, the bookmarklet format with and without
\* an "archive" parameter, and URLs that are not http(s) after normalisation.
VimeoPath == <<"vimeo.com", "/", "12345">>
EncodedVimeo == <<"http", "s", "%", "3A", "%", "2F", "%", "2F", "vimeo.com", "%", "2F", "12345">>
EncodedFtp == <<"ftp", "%", "3A", "%", "2F", "%", "2F", "vimeo.com", "%", "2F", "12345">>

LegacyRaws ==
  {[scheme |-> XYtMpvs, path |-> <<"www.youtube.com", "/", "watch">>,
    fields |-> <<<<"v", "=", "dQw4w9WgXcQ">>>>],
   [scheme |-> XYtMpvs, path |-> VimeoPath, fields |-> <<>>],
   [scheme |-> <<"ftp", ":">>, path |-> VimeoPath, fields |-> <<>>]}

ArchiveFields ==
  {<<>>, <<<<"archive", "=", "1">>>>, <<<<"archive", "=", "0">>>>, <<<<"archive", "=">>>>,
   <<<<"archive", "=", "0">>, <<"archive", "=", "1">>>>}

LauncherRaws ==
  LegacyRaws
  \cup {[scheme |-> XYtMpv, path |-> <<>>, fields |-> <<<<"url", "=">> \o EncodedVimeo>> \o more] :
          more \in ArchiveFields}
  \cup {[scheme |-> XYtMpv, path |-> <<>>, fields |-> <<<<"url", "=">> \o EncodedFtp>>]}

\* The value of the first "archive" field of a raw URL as it is written, None if
\* it has no such field.
RECURSIVE ArchiveField(_)
ArchiveField(fields) ==
  IF fields = <<>> THEN None
  ELSE IF StartsWith(Head(fields), <<"archive", "=">>) THEN Text(Drop(Head(fields), 2))
  ELSE ArchiveField(Tail(fields))

\* No URL has been handed over, nothing has been normalised.
NoRaw == [scheme |-> Http, path |-> <<>>, fields |-> <<>>]
NoNorm == [op |-> "none", url |-> <<>>, should_archive |-> TRUE, valid |-> FALSE]

(***************************************************************************)
(* State.                                                                  *)
(***************************************************************************)
VARIABLES
  variant,        \* the entry point of this run
  url,            \* the (normalised) URL of this run
  shouldArchive,  \* launcher: the archive flag of the URL
  clientAvailable,\* whether "import internetarchive" succeeds
  pc,             \* the position of the run
  remote,         \* the identifiers that exist in the remote archive
  cache,          \* the cache directory
  checkCalls,     \* calls of the existence checker in this run
  checkLookup,    \* what the checker's lookup did: "none", "exists", "absent", "error", "importerror"
  checkResult,    \* what the existence checker returned: None or a details URL
  checkedId,      \* the identifier the existence checker last looked up ("": none)
  fmtIdx,         \* download_video: index of the next format specification
  dlCalls,        \* the format specifications the downloader was invoked with, in order
  lastRc,         \* exit status of the last downloader invocation (-1: none)
  lastStdout,     \* standard output of the last downloader invocation
  videoFile,      \* the resolved media file
  infoFile,       \* the resolved sidecar file
  partial,        \* the media files of the cache directory that were not written to the end
  recheck,        \* the uploader's re-check: "none", "exists", "absent", "error"
  uploadId,       \* the identifier the uploader generated ("": none)
  uploadCalls,    \* calls of internetarchive.upload in this run
  responses,      \* the statuses of the responses of the upload call
  uploadRaised,   \* whether the upload call raised
  uploadResult,   \* what upload_to_archive returned: "none", "True", "False"
  cleanupCalls,   \* calls of the pair cleanup in this run
  cleanupOk,      \* what the pair cleanup returned: "none", "True", "False"
  cacheAtUpload,  \* the cache directory when the uploader was called
  result,         \* what archive_url returned: "none", "True", "False"
  exitStatus,     \* the exit status of main (-1: none)
  mtimes,         \* cache manager: the mtime of each file of the cache directory
  outside,        \* cache manager: the entries that are not files of the directory
  now,            \* cache manager: the clock, in days
  mgr,            \* cache manager: its last call and what the call did
  raw,            \* URL handling: the raw URL, in its parts
  norm,           \* URL handling: the function applied to it and what it gave
  ids,            \* identifiers: the calls of generate_archive_id, in order
  steps,          \* the steps this run has completed, in order, each with its outcome
  interrupted,    \* where the run was interrupted and the cache directory at that moment
  meta,           \* metadata: the call of extract_metadata and what it gave
  cmd,            \* commands: the call of run_command and what it gave
  procs,          \* two invocations side by side: where each is and what it has seen
  submissions     \* two invocations side by side: the upload calls, in order

vars == <<variant, url, shouldArchive, clientAvailable, pc, remote, cache,
          checkCalls, checkLookup, checkResult, checkedId, uploadId, fmtIdx, dlCalls, lastRc, lastStdout, partial,
          videoFile, infoFile, recheck, uploadId, uploadCalls,
                 responses, uploadRaised,
          uploadResult, cleanupCalls, cleanupOk, cacheAtUpload, result, exitStatus,
          mtimes, outside, now, mgr, raw, norm, ids, steps, interrupted, meta, cmd, procs, submissions>>

mgrVars == <<mtimes, outside, now, mgr>>
urlVars == <<raw, norm>>
raceVars == <<procs, submissions>>
fnVars == <<ids, meta, cmd, raceVars>>
\* What no step of a run changes once the URL is known.
envVars == <<variant, url, shouldArchive, clientAvailable, mgrVars, urlVars, fnVars,
            interrupted>>
checkVars == <<checkCalls, checkLookup, checkResult, checkedId>>
dlVars == <<fmtIdx, dlCalls, lastRc, lastStdout, videoFile, infoFile, partial>>
upVars == <<recheck, uploadId, uploadCalls, responses, uploadRaised, uploadResult, cacheAtUpload>>
cleanVars == <<cleanupCalls, cleanupOk>>

Variants == {"launcher", "archive", "ytdlp", "legacy", "cli"}

\* The entry points that run launch.py main: the script itself, and "launch" of cli.py.
LegacyVariants == {"legacy", "cli"}
\* The entry points that are given a raw URL and end the process with an exit status.
MainVariants == {"launcher"} \cup LegacyVariants

EntryPc(v) ==
  CASE v = "launcher" -> "l_parse"
    [] v = "archive" -> "a_check"
    [] v = "ytdlp" -> "y_check"
    [] v \in LegacyVariants -> "g_parse"

\* The run has not been interrupted.
NoInterrupt == [at |-> "none", cache |-> <<>>]

\* The names of the steps of a run.
StepNames ==
  {"Normalizing", "Dependencies", "Updating", "Purging", "Playing", "DecidingArchive",
   "CheckingExistence", "Downloading", "ExtractingMetadata", "Uploading", "CleaningUp"}

\* A step of the run has ended, with or without success.
Step(name, ok) == steps' = Append(steps, [name |-> name, ok |-> ok])

\* Files an earlier run may have left in the cache directory.
InitCaches ==
  {<<>>, <<SidecarOf(YtUrl)>>, <<SidecarOf(GenUrl), MediaOf(GenUrl)>>, <<DottedMediaOf(YtUrl)>>}

\* No helper function has been called on its own.
\* extract_metadata has not been called.
NoMeta == [module |-> "none"]

\* The two invocations of archive_url that run side by side.
Procs == {1, 2}

\* An invocation that has not begun.
NoProc ==
  [pc |-> "r_check", overlapped |-> FALSE, check |-> "none", recheck |-> "none",
   video |-> NoFile, info |-> NoFile, result |-> "none"]

\* run_command has not been called.
NoCmd == [module |-> "none"]

NoHelperCall ==
  /\ ids = <<>>
  /\ meta = NoMeta
  /\ cmd = NoCmd
  /\ procs = [p \in Procs |-> NoProc]
  /\ submissions = <<>>

\* What main makes of its raw URL: core/launcher.py reads the parameters,
\* launch.py only replaces the scheme and always archives.
MainUrl(v, r) ==
  IF v = "launcher" THEN LauncherUrl(Assemble(r))
  ELSE [url |-> LaunchGetRealUrl(Assemble(r)), should_archive |-> TRUE,
        valid |-> IsHttpUrl(LaunchGetRealUrl(Assemble(r)))]

\* archive_url is given the URL; the launchers are given a raw URL, and their URL
\* and archive flag are unset until main has parsed it.
Init ==
  /\ variant \in Variants
  /\ IF variant \in MainVariants
     THEN /\ url = "" /\ shouldArchive = TRUE
          /\ raw \in (IF variant = "launcher" THEN LauncherRaws ELSE LegacyRaws)
          /\ remote \in SUBSET {GenerateArchiveId(Text(MainUrl(variant, raw).url), Login)}
     ELSE /\ url \in Urls /\ shouldArchive = TRUE
          /\ raw = NoRaw
          /\ remote \in SUBSET {GenerateArchiveId(url, Login)}
  /\ clientAvailable \in BOOLEAN
  /\ pc = EntryPc(variant)
  /\ cache \in InitCaches
  /\ checkCalls = 0 /\ checkLookup = "none" /\ checkResult = None /\ checkedId = ""
  /\ fmtIdx = 1 /\ dlCalls = <<>> /\ lastRc = -1 /\ lastStdout = <<>>
  /\ videoFile = NoFile /\ infoFile = NoFile /\ partial = {}
  /\ recheck = "none" /\ uploadId = "" /\ uploadCalls = 0 /\ responses = <<>> /\ uploadRaised = FALSE
  /\ uploadResult = "none"
  /\ cleanupCalls = 0 /\ cleanupOk = "none"
  /\ cacheAtUpload = <<>>
  /\ result = "none" /\ exitStatus = -1
  /\ mtimes = <<>> /\ outside = Outside /\ now = 0 /\ mgr = NoCall
  /\ norm = NoNorm
  /\ NoHelperCall
  /\ steps = <<>> /\ interrupted = NoInterrupt

(***************************************************************************)
(* check_archive_status: the identifier is looked up; a client that cannot *)
(* be imported or a lookup that raises gives None.                         *)
(***************************************************************************)
\* Mutant of CheckArchiveStatus: only a lookup that answers "absent" gives None.
CheckArchiveStatus_FoundUnlessAbsent(lookup) ==
  IF lookup # "absent" THEN DetailsUrl(GenerateArchiveId(url, None)) ELSE None

\* Mutant of CheckArchiveStatus: the bare identifier is returned, not the details URL.
CheckArchiveStatus_BareIdentifier(lookup) ==
  IF lookup = "exists" THEN GenerateArchiveId(url, None) ELSE None

\* Mutant of CheckerIdentifier: the checker names the item without the login.
CheckerIdentifier_NoLogin(u) == GenerateArchiveId(u, "")

\* "identifier = generate_archive_id(url)" of check_archive_status.
CheckerIdentifier(u) == GenerateArchiveId(u, None)

\* "username = os.getlogin(); identifier = generate_archive_id(url, username)" of
\* upload_to_archive.
UploaderIdentifier(u) == GenerateArchiveId(u, Login)

\* The identifier is generated once the client is imported.
Generated(lookup, identifier, before) == IF lookup = "importerror" THEN before ELSE identifier

CheckArchiveStatus(lookup) ==
  IF lookup = "exists" THEN DetailsUrl(CheckerIdentifier(url)) ELSE None

\* The outcomes of the lookup internetarchive.get_item(identifier).exists.
Lookups(identifier) ==
  IF ~clientAvailable THEN {"importerror"}
  ELSE {"error", IF identifier \in remote THEN "exists" ELSE "absent"}

\* Mutant of Return: the launcher ignores what archive_url returned.
Return_ExitZero(r) ==
  /\ result' = r
  /\ pc' = "done"
  /\ exitStatus' = IF variant = "launcher" THEN 0 ELSE exitStatus

\* archive_url returns r to its caller; the launcher exits 1 on False.
Return(r) ==
  /\ result' = r
  /\ pc' = "done"
  /\ exitStatus' = IF variant = "launcher" THEN (IF r = "True" THEN 0 ELSE 1) ELSE exitStatus

Exit(status) ==
  /\ pc' = "done"
  /\ exitStatus' = status
  /\ UNCHANGED result

(***************************************************************************)
(* core/launcher.py main.                                                  *)
(***************************************************************************)
\* main up to the URL validation: the URL and the archive flag are read from the
\* raw URL; a URL that is not http(s) ends the run with status 1.
MainParse(nextPc) ==
  LET parsed == MainUrl(variant, raw)
  IN  /\ url' = Text(parsed.url)
      /\ shouldArchive' = parsed.should_archive
      /\ norm' = [op |-> "main", url |-> parsed.url,
                  should_archive |-> parsed.should_archive, valid |-> parsed.valid]
      /\ Step("Normalizing", parsed.valid)
      /\ IF parsed.valid THEN pc' = nextPc /\ UNCHANGED <<result, exitStatus>>
         ELSE Exit(1)
      /\ UNCHANGED <<variant, clientAvailable, mgrVars, raw, fnVars, interrupted, remote, cache,
                     checkVars, dlVars, upVars, cleanVars>>

LauncherParse ==
  /\ pc = "l_parse"
  /\ MainParse("l_deps")

\* Mutant of AfterDepsPc: the existence check comes first, before playback.
AfterDepsPc_CheckFirst == "l_check"

\* What main does after check_dependencies: the update and the purge, then playback.
AfterDepsPc == "l_purge"

\* check_dependencies: a missing player or environment ends the run with status 1.
LauncherDeps ==
  /\ pc = "l_deps"
  /\ \E ok \in BOOLEAN :
       /\ Step("Dependencies", ok)
       /\ IF ok THEN pc' = AfterDepsPc /\ UNCHANGED <<result, exitStatus>>
          ELSE Exit(1)
  /\ UNCHANGED <<envVars, remote, cache, checkVars, dlVars, upVars, cleanVars>>

\* The cache directory after purge_cache: the files older than the threshold are
\* unlinked, except those whose unlink fails.  A file's age is not part of the
\* state, so any file may be old, and kept is the set of files that stay.
PurgeCache(dir, kept) ==
  LET Stays(f) == f \in kept
  IN  SelectSeq(dir, Stays)

\* update_yt_dlp (nothing of the state changes), then, in one run of ten, the
\* purge of the cache files older than 30 days.
LauncherPurge ==
  /\ pc = "l_purge"
  /\ \E purging \in BOOLEAN, kept \in SUBSET Range(cache) :
       /\ cache' = IF purging THEN PurgeCache(cache, kept) ELSE cache
       /\ steps' = steps \o <<[name |-> "Updating", ok |-> TRUE]>> \o
                   (IF purging THEN <<[name |-> "Purging", ok |-> TRUE]>> ELSE <<>>)
  /\ pc' = "l_play"
  /\ UNCHANGED <<envVars, remote, checkVars, dlVars, upVars, cleanVars, result, exitStatus>>

\* play_video, then the archive flag: a failed playback exits 1, no archiving exits 0.
LauncherPlay ==
  /\ pc = "l_play"
  /\ \E played \in BOOLEAN :
       /\ steps' = steps \o <<[name |-> "Playing", ok |-> played]>> \o
                   (IF played THEN <<[name |-> "DecidingArchive", ok |-> TRUE]>> ELSE <<>>)
       /\ IF ~played THEN Exit(1)
          ELSE IF ~shouldArchive THEN Exit(0)
          ELSE pc' = "l_check" /\ UNCHANGED <<result, exitStatus>>
  /\ UNCHANGED <<envVars, remote, cache, checkVars, dlVars, upVars, cleanVars>>

\* "Check if already archived before downloading": found exits 0, else archive_url.
LauncherCheck ==
  /\ pc = "l_check"
  /\ \E lookup \in Lookups(CheckerIdentifier(url)) :
       /\ checkCalls' = checkCalls + 1
       /\ checkedId' = Generated(lookup, CheckerIdentifier(url), checkedId)
       /\ Step("CheckingExistence", TRUE)
       /\ checkLookup' = lookup
       /\ checkResult' = CheckArchiveStatus(lookup)
       /\ IF CheckArchiveStatus(lookup) # None THEN Exit(0)
          ELSE pc' = "a_check" /\ UNCHANGED <<result, exitStatus>>
  /\ UNCHANGED <<envVars, remote, cache, dlVars, upVars, cleanVars>>

(***************************************************************************)
(* core/archive.py archive_url.                                            *)
(***************************************************************************)
\* Mutant of AfterArchiveCheck: the result of the existence check is ignored.
AfterArchiveCheck_Ignored(checked) ==
  pc' = "a_download" /\ UNCHANGED <<result, exitStatus>>

\* Where archive_url goes after its existence check returned checked.
AfterArchiveCheck(checked) ==
  IF checked # None THEN Return("True")
  ELSE pc' = "a_download" /\ UNCHANGED <<result, exitStatus>>

\* "First check if already archived": found returns True without downloading.
ArchiveCheck ==
  /\ pc = "a_check"
  /\ \E lookup \in Lookups(CheckerIdentifier(url)) :
       /\ checkCalls' = checkCalls + 1
       /\ checkedId' = Generated(lookup, CheckerIdentifier(url), checkedId)
       /\ Step("CheckingExistence", TRUE)
       /\ checkLookup' = lookup
       /\ checkResult' = CheckArchiveStatus(lookup)
       /\ AfterArchiveCheck(CheckArchiveStatus(lookup))
  /\ UNCHANGED <<envVars, remote, cache, dlVars, upVars, cleanVars>>

\* Mutant of LoopContinues: the loop does not break on a located file.
LoopContinues_NoBreak(found, idx) == idx < Len(DownloadFormats)

\* Whether download_video's loop goes on after an attempt with this outcome.
LoopContinues(found, idx) == found = NoFile /\ idx < Len(DownloadFormats)

\* One iteration of download_video's loop: try_download_format with the next
\* format specification, then the stdout parse if the downloader exited 0.
DownloadAttempt ==
  /\ pc = "a_download"
  /\ \E rc \in {0, 1}, out \in Stdouts(url), written \in Writes(url) :
       LET dir == WriteAll(cache, written)
           found == IF rc = 0 THEN ParsePrintedFile(out, dir) ELSE NoFile
       IN  /\ cache' = dir
           /\ dlCalls' = Append(dlCalls, DownloadFormats[fmtIdx])
           /\ lastRc' = rc
           /\ lastStdout' = out
           /\ partial' = PartialAfter(partial, rc = 0, written)
           /\ videoFile' = found
           /\ IF LoopContinues(found, fmtIdx)
              THEN fmtIdx' = fmtIdx + 1 /\ pc' = "a_download"
              ELSE fmtIdx' = fmtIdx /\ pc' = "a_info"
  /\ UNCHANGED <<envVars, remote, checkVars, infoFile, upVars, cleanVars, result, exitStatus,
                 steps>>

\* The sidecar files download_video may take: the expected name if it exists,
\* else any match of the glob "*<video_id>*.info.json".
InfoCandidates(dir) ==
  LET guess == ExtractVideoId(url)
      expected == File(guess.extractor, guess.id, <<"info", "json">>)
  IN  IF Exists(dir, expected) THEN {expected}
      ELSE {f \in Range(dir) : f.id = guess.id /\ IsSidecar(f)}

\* Mutant of DownloadFailed: download_video always returns a pair.
DownloadFailed_Never(video, candidates) == FALSE

\* Whether download_video returns None: "if not video_file" after the loop, or
\* no sidecar at the expected path and none matching the glob.
DownloadFailed(video, candidates) == video = NoFile \/ candidates = {}

\* After the loop: no media file fails the download; else the sidecar is looked for.
DownloadFinish ==
  /\ pc = "a_info"
  /\ Step("Downloading", ~DownloadFailed(videoFile, InfoCandidates(cache)))
  /\ IF DownloadFailed(videoFile, InfoCandidates(cache))
     THEN /\ Return("False")
          /\ UNCHANGED <<infoFile, cacheAtUpload>>
     ELSE /\ \E f \in InfoCandidates(cache) : infoFile' = f
          /\ cacheAtUpload' = cache
          /\ pc' = "a_upload"
          /\ UNCHANGED <<result, exitStatus>>
  /\ UNCHANGED <<envVars, remote, cache, checkVars, fmtIdx, dlCalls, lastRc, lastStdout, partial,
                 videoFile, recheck, uploadId, uploadCalls,
                 responses, uploadRaised, uploadResult,
                 cleanVars>>

(***************************************************************************)
(* core/archive.py upload_to_archive.                                      *)
(***************************************************************************)
\* Mutant of UploadSuccess: any() in place of all().
UploadSuccess_Any(resp) == \E i \in 1..Len(resp) : resp[i] = StatusOk

\* "success = all(r.status_code == 200 for r in response)".
UploadSuccess(resp) == \A i \in 1..Len(resp) : resp[i] = StatusOk

\* The remote archive after an upload call whose requests got these statuses:
\* a stored file creates the item.
RemoteAfter(identifier, resp) ==
  IF \E i \in 1..Len(resp) : resp[i] = StatusOk THEN remote \cup {identifier} ELSE remote

\* What upload_to_archive does once the re-check has answered: an existing item
\* returns True without an upload call, an absent one goes on to the upload call.
AfterRecheck(lookup) ==
  CASE lookup = "exists" -> uploadResult' = "True" /\ pc' = "a_cleanup"
    [] lookup = "absent" -> uploadResult' = uploadResult /\ pc' = "a_submit"
    [] OTHER -> uploadResult' = "False" /\ pc' = "a_cleanup"

\* Where the caller of upload_to_archive goes on.
AfterUploadPc == IF variant \in LegacyVariants THEN "g_exit" ELSE "a_cleanup"

\* Import of the client, the identifier and the re-check "if item.exists".
UploadRecheck ==
  /\ pc = "a_upload"
  /\ \E lookup \in Lookups(UploaderIdentifier(url)) :
       /\ recheck' = IF lookup = "importerror" THEN "none" ELSE lookup
       /\ uploadId' = Generated(lookup, UploaderIdentifier(url), uploadId)
       /\ steps' = steps \o
            (IF lookup = "importerror" THEN <<>>
             ELSE <<[name |-> "ExtractingMetadata", ok |-> TRUE]>>) \o
            (IF lookup = "absent" THEN <<>>
             ELSE <<[name |-> "Uploading", ok |-> lookup = "exists"]>>)
       /\ AfterRecheck(lookup)
  /\ UNCHANGED <<envVars, remote, cache, checkVars, dlVars, uploadCalls, responses,
                 uploadRaised, cacheAtUpload, cleanVars, result, exitStatus>>

\* internetarchive.upload and the test of its responses; an exception returns False.
UploadSubmit ==
  /\ pc = "a_submit"
  /\ \E raised \in BOOLEAN, resp \in SeqsUpTo(Statuses, MaxResponses) :
       /\ uploadCalls' = uploadCalls + 1
       /\ remote' = RemoteAfter(uploadId, resp)
       /\ uploadRaised' = raised
       /\ responses' = IF raised THEN <<>> ELSE resp
       /\ uploadResult' = IF ~raised /\ UploadSuccess(resp) THEN "True" ELSE "False"
       /\ Step("Uploading", ~raised /\ UploadSuccess(resp))
  /\ pc' = AfterUploadPc
  /\ UNCHANGED <<envVars, cache, checkVars, dlVars, recheck, uploadId, cacheAtUpload, cleanVars,
                 result, exitStatus>>

\* Mutant of ShouldCleanup: the pair is cleaned up whatever the uploader returned.
ShouldCleanup_Always(success) == TRUE

\* "if success:" the pair is cleaned up.
ShouldCleanup(success) == success = "True"

\* Mutant of ArchiveUrlResult: a failed cleanup makes archive_url return False.
ArchiveUrlResult_NeedsCleanup(success, cleaned) ==
  IF success = "True" /\ cleaned THEN "True" ELSE "False"

\* "return success": what archive_url returns after the upload and the cleanup.
ArchiveUrlResult(success, cleaned) == success

\* The end of archive_url: the cleanup of the pair after a successful upload,
\* whose own result does not change what archive_url returns.
ArchiveCleanup ==
  /\ pc = "a_cleanup"
  /\ IF ShouldCleanup(uploadResult)
     THEN \E failVideo \in BOOLEAN, failInfo \in BOOLEAN :
            LET c == CleanupCacheFiles(cache, videoFile, infoFile, failVideo, failInfo)
            IN  /\ cache' = c.dir
                /\ cleanupOk' = IF c.ok THEN "True" ELSE "False"
                /\ cleanupCalls' = cleanupCalls + 1
                /\ Step("CleaningUp", c.ok)
                /\ Return(ArchiveUrlResult(uploadResult, c.ok))
     ELSE /\ UNCHANGED <<cache, cleanVars, steps>>
          /\ Return(ArchiveUrlResult(uploadResult, TRUE))
  /\ UNCHANGED <<envVars, remote, checkVars, dlVars, upVars>>

(***************************************************************************)
(* archive/yt_dlp.py archive_url, get_filenames and download.  Its         *)
(* is_archived, upload and remove are archive_org.py's check_archive_status*)
(* and upload_to_archive and cache.py's pair cleanup.                      *)
(***************************************************************************)
YtdlpCheck ==
  /\ pc = "y_check"
  /\ \E lookup \in Lookups(CheckerIdentifier(url)) :
       /\ checkCalls' = checkCalls + 1
       /\ checkedId' = Generated(lookup, CheckerIdentifier(url), checkedId)
       /\ Step("CheckingExistence", TRUE)
       /\ checkLookup' = lookup
       /\ checkResult' = CheckArchiveStatus(lookup)
       /\ IF CheckArchiveStatus(lookup) # None THEN Return("True")
          ELSE pc' = "y_names" /\ UNCHANGED <<result, exitStatus>>
  /\ UNCHANGED <<envVars, remote, cache, dlVars, upVars, cleanVars>>

\* get_filenames, then "if video_file.exists() and info_file.exists()": files of
\* an earlier run are used as they are.  A failing get_filenames returns False.
YtdlpNames ==
  /\ pc = "y_names"
  /\ \/ /\ Return("False")
        /\ Step("Downloading", FALSE)
        /\ UNCHANGED <<videoFile, infoFile, cacheAtUpload>>
     \/ \E predicted \in PredictedNames(url) :
          /\ UNCHANGED steps
          /\ videoFile' = predicted
          /\ infoFile' = WithSuffix(predicted, <<"info", "json">>)
          /\ IF Exists(cache, predicted) /\ Exists(cache, WithSuffix(predicted, <<"info", "json">>))
             THEN pc' = "a_upload" /\ cacheAtUpload' = cache
             ELSE pc' = "y_download" /\ cacheAtUpload' = cacheAtUpload
          /\ UNCHANGED <<result, exitStatus>>
  /\ UNCHANGED <<envVars, remote, cache, checkVars, fmtIdx, dlCalls, lastRc, lastStdout, partial,
                 recheck, uploadId, uploadCalls,
                 responses, uploadRaised, uploadResult, cleanVars>>

\* The media files download() may take when the predicted names are not both
\* there: any match of the glob "<stem>.*" whose Path.suffix is not ".info.json".
GlobCandidates(dir, predicted) ==
  {f \in Range(dir) : SameBase(f, predicted) /\ Suffix(f) # ".info.json"}

\* download(): one invocation with "b[ext=mp4]/b", then the pair is looked for.
YtdlpDownload ==
  /\ pc = "y_download"
  /\ \/ /\ Return("False")
        /\ Step("Downloading", FALSE)
        /\ UNCHANGED <<cache, dlVars, cacheAtUpload>>
     \/ \E rc \in {0, 1}, written \in Writes(url) :
          LET dir == WriteAll(cache, written)
              pairs ==
                IF rc # 0 THEN {}
                ELSE IF Exists(dir, videoFile) /\ Exists(dir, infoFile)
                THEN {<<videoFile, infoFile>>}
                ELSE {<<f, WithSuffix(f, <<"info", "json">>)>> : f \in GlobCandidates(dir, videoFile)}
          IN  /\ cache' = dir
              /\ dlCalls' = Append(dlCalls, "b[ext=mp4]/b")
              /\ lastRc' = rc
              /\ partial' = PartialAfter(partial, rc = 0, written)
              /\ UNCHANGED <<fmtIdx, lastStdout>>
              /\ \/ \E pair \in pairs :
                      /\ Exists(dir, pair[1]) /\ Exists(dir, pair[2])
                      /\ videoFile' = pair[1]
                      /\ infoFile' = pair[2]
                      /\ cacheAtUpload' = dir
                      /\ pc' = "a_upload"
                      /\ Step("Downloading", TRUE)
                      /\ UNCHANGED <<result, exitStatus>>
                 \/ /\ \/ pairs = {}
                       \/ \E pair \in pairs : ~(Exists(dir, pair[1]) /\ Exists(dir, pair[2]))
                    /\ Return("False")
                    /\ Step("Downloading", FALSE)
                    /\ UNCHANGED <<videoFile, infoFile, cacheAtUpload>>
  /\ UNCHANGED <<envVars, remote, checkVars, recheck, uploadId, uploadCalls,
                 responses, uploadRaised,
                 uploadResult, cleanVars>>

(***************************************************************************)
(* launch.py main, download_video and upload_to_archive.                   *)
(***************************************************************************)
LegacyParse ==
  /\ pc = "g_parse"
  /\ MainParse("g_deps")

\* check_dependencies, then update_yt_dlp.
LegacyDeps ==
  /\ pc = "g_deps"
  /\ \E ok \in BOOLEAN :
       /\ steps' = steps \o <<[name |-> "Dependencies", ok |-> ok]>> \o
                   (IF ok THEN <<[name |-> "Updating", ok |-> TRUE]>> ELSE <<>>)
       /\ IF ok THEN pc' = "g_play" /\ UNCHANGED <<result, exitStatus>>
          ELSE Exit(1)
  /\ UNCHANGED <<envVars, remote, cache, checkVars, dlVars, upVars, cleanVars>>

LegacyPlay ==
  /\ pc = "g_play"
  /\ \E played \in BOOLEAN :
       /\ Step("Playing", played)
       /\ IF played THEN pc' = "g_download" /\ UNCHANGED <<result, exitStatus>>
          ELSE Exit(1)
  /\ UNCHANGED <<envVars, remote, cache, checkVars, dlVars, upVars, cleanVars>>

\* The sidecar files of the cache directory, oldest first.
Sidecars(dir) == SelectSeq(dir, IsSidecar)

\* The media files launch.py's download_video may take for a sidecar: the sidecar
\* without its last suffix, else a match of "<that name>.*" whose suffix is not ".json".
LegacyVideoCandidates(dir, info) ==
  LET stripped == WithSuffix(info, <<>>)
  IN  IF Exists(dir, stripped) THEN {stripped}
      ELSE {f \in Range(dir) :
              /\ SameBase(f, stripped)
              /\ Len(f.exts) > Len(stripped.exts)
              /\ SubSeq(f.exts, 1, Len(stripped.exts)) = stripped.exts
              /\ Suffix(f) # ".json"}

\* download_video: one invocation, then the most recent sidecar and its media file.
LegacyDownload ==
  /\ pc = "g_download"
  /\ \E rc \in {0, 1}, written \in Writes(url) :
       LET dir == WriteAll(cache, written)
           infos == Sidecars(dir)
           latest == infos[Len(infos)]
       IN  /\ cache' = dir
           /\ dlCalls' = Append(dlCalls, "bestvideo*+bestaudio/best")
           /\ lastRc' = rc
           /\ partial' = PartialAfter(partial, rc = 0, written)
           /\ UNCHANGED <<fmtIdx, lastStdout>>
           /\ Step("Downloading",
                   ~(rc # 0 \/ infos = <<>> \/ LegacyVideoCandidates(dir, latest) = {}))
           /\ IF rc # 0 \/ infos = <<>> \/ LegacyVideoCandidates(dir, latest) = {}
              THEN Exit(1) /\ UNCHANGED <<videoFile, infoFile, cacheAtUpload>>
              ELSE /\ \E v \in LegacyVideoCandidates(dir, latest) : videoFile' = v
                   /\ infoFile' = latest
                   /\ cacheAtUpload' = dir
                   /\ pc' = "g_upload"
                   /\ UNCHANGED <<result, exitStatus>>
  /\ UNCHANGED <<envVars, remote, checkVars, recheck, uploadId, uploadCalls,
                 responses, uploadRaised,
                 uploadResult, cleanVars>>

\* The outcomes of launch.py's search "identifier:<identifier>": a search that
\* raises is "searcherror"; "error" is any other exception (an unreadable sidecar).
LegacyLookups(identifier) ==
  IF ~clientAvailable THEN {"importerror"}
  ELSE {"error", "searcherror", IF identifier \in remote THEN "exists" ELSE "absent"}

\* launch.py's "exists": a failed search counts as not existing.
LegacyExists(lookup) == lookup = "exists"

\* upload_to_archive up to "if exists:".
LegacyRecheck ==
  /\ pc = "g_upload"
  /\ \E lookup \in LegacyLookups(UploaderIdentifier(url)) :
       /\ recheck' = IF lookup \in {"importerror", "error"} THEN "none" ELSE lookup
       /\ uploadId' = IF lookup \in {"importerror", "error"} THEN uploadId
                      ELSE UploaderIdentifier(url)
       /\ steps' = steps \o
            (IF lookup = "importerror" THEN <<>>
             ELSE <<[name |-> "ExtractingMetadata", ok |-> lookup # "error"]>>) \o
            (IF lookup \in {"importerror", "exists"}
             THEN <<[name |-> "Uploading", ok |-> lookup = "exists"]>> ELSE <<>>)
       /\ IF lookup \in {"importerror", "error"}
          THEN uploadResult' = "False" /\ pc' = "g_exit"
          ELSE IF LegacyExists(lookup)
          THEN uploadResult' = "True" /\ pc' = "g_exit"
          ELSE uploadResult' = uploadResult /\ pc' = "a_submit"
  /\ UNCHANGED <<envVars, remote, cache, checkVars, dlVars, uploadCalls, responses,
                 uploadRaised, cacheAtUpload, cleanVars, result, exitStatus>>

\* The exit status of the process when main is over: main returns after a
\* successful upload and has called sys.exit(1) otherwise.  The script ends with
\* status 0 when main returns; cli.py goes on to its last line, sys.exit(1).
ExitOfMain(v, returned) == IF returned /\ v # "cli" THEN 0 ELSE 1

\* "if not upload_to_archive(...): sys.exit(1)"; the pair is not cleaned up.
LegacyExit ==
  /\ pc = "g_exit"
  /\ Exit(ExitOfMain(variant, uploadResult = "True"))
  /\ UNCHANGED <<envVars, remote, cache, checkVars, dlVars, upVars, cleanVars, steps>>

(***************************************************************************)
(* The interruption of a launcher (KeyboardInterrupt).  It arrives while    *)
(* main waits for the player, the downloader or the upload; no function of  *)
(* the pipeline catches it ("except Exception" does not).                   *)
(***************************************************************************)
\* The positions of a run at which it waits for playback, download and upload.
PlaybackPcs == {"l_play", "g_play"}
DownloadPcs == {"a_download", "g_download"}
UploadPcs == {"a_upload", "a_submit", "g_upload"}

\* Mutant of AfterInterrupt: the handler removes what the run has downloaded.
\* Mutant of AfterInterrupt: the handler empties the cache directory.
AfterInterrupt_Cleaned(dir) == <<>>

\* The cache directory after "except KeyboardInterrupt": the handler logs and
\* exits, no file is touched.
AfterInterrupt(dir) == dir

\* The exit status of an interrupted process: the scripts call sys.exit(130);
\* cli.py catches nothing, and the interpreter ends the process by SIGINT, which
\* its caller sees as 128 + 2.
InterruptStatus(v) == 130

\* The downloader may have written files before the interruption, and an
\* interrupted upload may have created the item.
Interrupt ==
  /\ variant \in MainVariants
  /\ pc \in PlaybackPcs \cup DownloadPcs \cup UploadPcs
  /\ \E written \in (IF pc \in DownloadPcs THEN Writes(url) ELSE {<<>>}),
        stored \in (IF pc = "a_submit" THEN BOOLEAN ELSE {FALSE}) :
       /\ interrupted' = [at |-> pc, cache |-> WriteAll(cache, written)]
       /\ cache' = AfterInterrupt(WriteAll(cache, written))
       /\ partial' = PartialAfter(partial, FALSE, written)
       /\ remote' = IF stored THEN remote \cup {GenerateArchiveId(url, Login)} ELSE remote
  /\ Exit(InterruptStatus(variant))
  /\ UNCHANGED <<variant, url, shouldArchive, clientAvailable, mgrVars, urlVars, fnVars,
                 checkVars, fmtIdx, dlCalls, lastRc, lastStdout, videoFile, infoFile,
                 upVars, cleanVars, steps>>

Next ==
  \/ YtdlpCheck
  \/ YtdlpNames
  \/ YtdlpDownload
  \/ LegacyParse
  \/ LegacyDeps
  \/ LegacyPlay
  \/ LegacyDownload
  \/ LegacyRecheck
  \/ LegacyExit
  \/ LauncherParse
  \/ LauncherDeps
  \/ LauncherPurge
  \/ LauncherPlay
  \/ LauncherCheck
  \/ ArchiveCheck
  \/ DownloadAttempt
  \/ DownloadFinish
  \/ UploadRecheck
  \/ UploadSubmit
  \/ ArchiveCleanup
  \/ Interrupt

Spec == Init /\ [][Next]_vars

(***************************************************************************)
(* Run after run on one cache directory: after a launcher was interrupted   *)
(* in its download, the operator archives the same URL (archive_url of      *)
(* core/archive.py or of archive/yt_dlp.py).  The cache directory, its      *)
(* unfinished files and the remote archive are what the first run left;     *)
(* "interrupted" goes on telling where that run was interrupted.            *)
(***************************************************************************)
ArchiveAgain ==
  /\ pc = "done"
  /\ variant \in MainVariants
  /\ interrupted.at \in DownloadPcs
  /\ \E v \in {"archive", "ytdlp"} :
       /\ variant' = v
       /\ pc' = EntryPc(v)
  /\ checkCalls' = 0 /\ checkLookup' = "none" /\ checkResult' = None /\ checkedId' = ""
  /\ fmtIdx' = 1 /\ dlCalls' = <<>> /\ lastRc' = -1 /\ lastStdout' = <<>>
  /\ videoFile' = NoFile /\ infoFile' = NoFile
  /\ recheck' = "none" /\ uploadId' = "" /\ uploadCalls' = 0 /\ responses' = <<>>
  /\ uploadRaised' = FALSE /\ uploadResult' = "none"
  /\ cleanupCalls' = 0 /\ cleanupOk' = "none"
  /\ cacheAtUpload' = <<>>
  /\ result' = "none" /\ exitStatus' = -1
  /\ steps' = <<>>
  /\ UNCHANGED <<url, shouldArchive, clientAvailable, remote, cache, partial, mgrVars,
                 urlVars, fnVars, interrupted>>

RunsNext ==
  \/ Next
  \/ ArchiveAgain

RunsSpec == Init /\ [][RunsNext]_vars

(***************************************************************************)
(* The cache manager as run from the command line ("cache info", "cache     *)
(* clean", "cache clean --all") and by the archiver (the pair cleanup),     *)
(* call after call on one cache directory while the days pass.              *)
(***************************************************************************)
pipeVars == <<variant, url, shouldArchive, clientAvailable, pc, remote, checkVars, dlVars,
              upVars, cleanVars, result, exitStatus, steps, interrupted>>
runVars == <<pipeVars, urlVars, fnVars>>

\* No launcher or archiver run is under way.
NoRun ==
  /\ variant = "archive" /\ url = YtUrl /\ shouldArchive = TRUE /\ clientAvailable = TRUE
  /\ pc = "idle" /\ remote = {}
  /\ checkCalls = 0 /\ checkLookup = "none" /\ checkResult = None /\ checkedId = ""
  /\ fmtIdx = 1 /\ dlCalls = <<>> /\ lastRc = -1 /\ lastStdout = <<>>
  /\ videoFile = NoFile /\ infoFile = NoFile /\ partial = {}
  /\ recheck = "none" /\ uploadId = "" /\ uploadCalls = 0 /\ responses = <<>> /\ uploadRaised = FALSE
  /\ uploadResult = "none"
  /\ cleanupCalls = 0 /\ cleanupOk = "none"
  /\ cacheAtUpload = <<>>
  /\ result = "none" /\ exitStatus = -1
  /\ steps = <<>> /\ interrupted = NoInterrupt

\* The cache directories the manager may find: files in mtime order.
ManagedDirs == {dir \in SeqsUpTo(ManagedFiles, Cardinality(ManagedFiles)) :
                  \A i \in 1..Len(dir), j \in 1..Len(dir) : dir[i] = dir[j] => i = j}

CacheInit ==
  /\ NoRun
  /\ cache \in ManagedDirs
  /\ mtimes \in [Range(cache) -> 0..MaxMtime]
  /\ \A i \in 1..Len(cache), j \in 1..Len(cache) : i < j => mtimes[cache[i]] <= mtimes[cache[j]]
  /\ outside = Outside
  /\ now = MaxMtime
  /\ mgr = NoCall
  /\ raw = NoRaw /\ norm = NoNorm
  /\ NoHelperCall

\* The record of a call and the directory it leaves.
Called(op, maxAge, faults, out, pair) ==
  LET gone == Gone(cache, outside, out, faults)
      dirAfter == DirAfter(IF op = "pair" THEN pair.dir ELSE cache, gone)
  IN  /\ mgr.op = "none"
      /\ mgr' = [op |-> op, maxAge |-> maxAge, at |-> now, faults |-> faults,
                 before |-> cache, beforeMt |-> mtimes, out |-> out,
                 pair |-> [video |-> pair.video, info |-> pair.info,
                           failVideo |-> pair.failVideo, failInfo |-> pair.failInfo,
                           ok |-> pair.ok],
                 prev |-> mgr.prev, last |-> mgr.last]
      /\ cache' = dirAfter
      /\ mtimes' = MtimesAfter(mtimes, dirAfter)
      /\ outside' = outside \ gone
      /\ UNCHANGED <<now, runVars>>

NoPair ==
  [dir |-> <<>>, video |-> NoFile, info |-> NoFile, failVideo |-> FALSE, failInfo |-> FALSE,
   ok |-> TRUE]

\* "cache info": format_cache_info over get_cache_info.
MgrInfo ==
  \E order \in IterOrders(cache, outside), faults \in FaultSets(Range(cache), {"stat"}) :
    Called("info", 0, faults, GetCacheInfo(order, mtimes, now, faults), NoPair)

\* "cache clean --days n": utils/cache.py purge_cache.
MgrPurge ==
  \E order \in IterOrders(cache, outside), faults \in FaultSets(Range(cache), FaultKinds),
     maxAge \in 0..MaxAgeDays :
    Called("purge", maxAge, faults,
           PurgeCacheCall(order, mtimes, now, maxAge, faults), NoPair)

\* "cache clean --days n" of cli/commands.py: utils/fs.py purge_cache.
MgrPurgeFs ==
  \E order \in IterOrders(cache, outside), faults \in FaultSets(Range(cache), FaultKinds),
     maxAge \in 0..MaxAgeDays :
    Called("purge_fs", maxAge, faults,
           FsPurgeCache(order, mtimes, now, maxAge, faults), NoPair)

\* "cache clean --all": clean_all_cache.
MgrClear ==
  \E order \in IterOrders(cache, outside), faults \in FaultSets(Range(cache), FaultKinds) :
    Called("clear", 0, faults, CleanAllCache(order, mtimes, now, faults), NoPair)

\* What cleanup_cache_files(video, info) does to the directory, with its arguments.
PairCall(dir, video, info, failVideo, failInfo) ==
  [dir |-> CleanupCacheFiles(dir, video, info, failVideo, failInfo).dir,
   video |-> video, info |-> info, failVideo |-> failVideo, failInfo |-> failInfo,
   ok |-> CleanupCacheFiles(dir, video, info, failVideo, failInfo).ok]

\* cleanup_cache_files on a path and a sidecar path of the cache directory.
MgrCleanupPair ==
  /\ mgr.op = "none"
  /\ \E video \in ManagedFiles, info \in {f \in ManagedFiles : IsSidecar(f)},
        failVideo \in BOOLEAN, failInfo \in BOOLEAN :
       Called("pair", 0, {}, Outcome(FALSE, NothingDeleted, <<>>),
              PairCall(cache, video, info, failVideo, failInfo))

\* The cache commands of cli.py main: "cache info", "cache clean --days n" and
\* "cache clean --all".
CliCacheOps == {"info", "purge", "clear"}

\* The exit status of cli.py main after a cache command: no branch of "cache info"
\* or "cache clean" calls sys.exit, so a command that returned goes on to the last
\* line of main, sys.exit(1); an exception of the command leaves main uncaught and
\* the interpreter ends with status 1.  -1: not a command of cli.py main.
CliExit(op, raised) == IF op \in CliCacheOps THEN 1 ELSE -1

\* The command ends; all that is kept of it is whether it was a purge that
\* returned ("purge") or a clear without a fault ("clear"), and how the process
\* of the command ended.
MgrExit ==
  /\ mgr.op # "none"
  /\ mgr' = [NoCall EXCEPT !.prev =
               IF mgr.op \in {"purge", "purge_fs"} /\ ~mgr.out.raised THEN "purge"
               ELSE IF mgr.op = "clear" /\ mgr.faults = {} THEN "clear"
               ELSE "none",
                          !.last = [op |-> mgr.op, raised |-> mgr.out.raised,
                                    exit |-> CliExit(mgr.op, mgr.out.raised)]]
  /\ UNCHANGED <<cache, mtimes, outside, now, runVars>>

\* A day passes between two commands.
MgrTick ==
  /\ mgr.op = "none"
  /\ now < MaxNow
  /\ now' = now + 1
  /\ UNCHANGED <<cache, mtimes, outside, mgr, runVars>>

CacheNext ==
  \/ MgrInfo
  \/ MgrPurge
  \/ MgrPurgeFs
  \/ MgrClear
  \/ MgrCleanupPair
  \/ MgrExit
  \/ MgrTick

CacheSpec == CacheInit /\ [][CacheNext]_vars

(***************************************************************************)
(* URL handling: one raw URL, and one of the functions applied to it.       *)
(***************************************************************************)
UrlInit ==
  /\ NoRun
  /\ cache = <<>> /\ mtimes = <<>> /\ outside = Outside /\ now = 0 /\ mgr = NoCall
  /\ raw \in RawUrls
  /\ norm = NoNorm
  /\ NoHelperCall

Normalised(op, target, should_archive) ==
  /\ norm' = [op |-> op, url |-> target, should_archive |-> should_archive,
              valid |-> IsHttpUrl(target)]
  /\ UNCHANGED <<raw, variant, url, shouldArchive, clientAvailable, pc, remote, cache,
                 checkVars, dlVars, upVars, cleanVars, result, exitStatus, mgrVars,
                 fnVars, steps, interrupted>>

\* utils/url.py get_real_url(raw_url).
UrlGetRealUrl ==
  /\ norm.op = "none"
  /\ Normalised("get_real_url", GetRealUrl(Assemble(raw)), TRUE)

\* utils.py get_real_url(raw_url).
UrlUtilsGetRealUrl ==
  /\ norm.op = "none"
  /\ Normalised("utils_get_real_url", UtilsGetRealUrl(Assemble(raw)), TRUE)

\* launch.py main: get_real_url(raw_url), then the URL validation.
UrlLaunchMain ==
  /\ norm.op = "none"
  /\ Normalised("launch_main", LaunchGetRealUrl(Assemble(raw)), TRUE)

\* core/launcher.py main: the URL and the archive flag, then the URL validation.
UrlLauncherMain ==
  /\ norm.op = "none"
  /\ Normalised("launcher_main", LauncherUrl(Assemble(raw)).url,
                LauncherUrl(Assemble(raw)).should_archive)

UrlNext ==
  \/ UrlGetRealUrl
  \/ UrlUtilsGetRealUrl
  \/ UrlLaunchMain
  \/ UrlLauncherMain

UrlSpec == UrlInit /\ [][UrlNext]_vars

(***************************************************************************)
(* Identifiers: generate_archive_id of utils/system.py and of utils/fs.py   *)
(* called on their own, call after call while the days pass.                *)
(***************************************************************************)
IdModules == {"system", "fs"}
IdUrls == Urls \cup {LongUrl}
\* The username argument: left out (None), or given.
IdUsernames == {None, "testuser"}

\* Mutant of IdOf: utils/fs.py puts the day of the call in front of the identifier.
IdOf_Dated(module, u, username) ==
  IF module = "fs" THEN <<"2025_01_01", "2025_01_02", "2025_01_03", "2025_01_04">>[now + 1]
                        \o "-" \o GenerateArchiveId(u, username)
  ELSE GenerateArchiveId(u, username)

\* generate_archive_id(url, username) of the module: the two functions have the
\* same body, which reads neither the clock nor anything an earlier call left.
IdOf(module, u, username) == GenerateArchiveId(u, username)

IdInit ==
  /\ NoRun
  /\ cache = <<>> /\ mtimes = <<>> /\ outside = Outside /\ now = 0 /\ mgr = NoCall
  /\ raw = NoRaw /\ norm = NoNorm
  /\ NoHelperCall

GenerateIdCall ==
  /\ Len(ids) < MaxIdCalls
  /\ \E module \in IdModules, u \in IdUrls, username \in IdUsernames :
       ids' = Append(ids, [module |-> module, url |-> u, username |-> username,
                           at |-> now, id |-> IdOf(module, u, username)])
  /\ UNCHANGED <<cache, mgrVars, urlVars, pipeVars, meta, cmd, raceVars>>

\* A day passes between two calls.
IdTick ==
  /\ now < MaxNow
  /\ now' = now + 1
  /\ UNCHANGED <<cache, mtimes, outside, mgr, fnVars, urlVars, pipeVars>>

IdNext ==
  \/ GenerateIdCall
  \/ IdTick

IdSpec == IdInit /\ [][IdNext]_vars

(***************************************************************************)
(* Two invocations of core/archive.py archive_url for one URL by one         *)
(* operator, side by side on one cache directory and one remote archive.    *)
(* Each goes through its check, its download, the uploader's re-check, the   *)
(* upload call and the pair cleanup; nothing coordinates the two, so their   *)
(* steps interleave in any order.                                            *)
(***************************************************************************)
Other(p) == 3 - p

\* The invocation has begun and has not returned.
InProgress(q) == procs[q].pc \notin {"r_check", "r_done"}

\* What the two invocations leave alone: all but the cache directory, the remote
\* archive and their own state.
raceRest == <<variant, url, shouldArchive, clientAvailable, pc, checkVars, dlVars, upVars,
              cleanVars, result, exitStatus, steps, interrupted, mgrVars, urlVars, ids, meta,
              cmd>>

\* "archive_url_path = check_archive_status(url); if archive_url_path: return True".
RaceCheck(p) ==
  /\ procs[p].pc = "r_check"
  /\ \E lookup \in Lookups(CheckerIdentifier(url)) :
       procs' = [procs EXCEPT ![p] =
                   [@ EXCEPT !.overlapped = InProgress(Other(p)),
                             !.check = lookup,
                             !.pc = IF CheckArchiveStatus(lookup) # None THEN "r_done"
                                    ELSE "r_download",
                             !.result = IF CheckArchiveStatus(lookup) # None THEN "True"
                                        ELSE "none"]]
  /\ UNCHANGED <<submissions, cache>>

\* "result = download_video(...); if not result: return False": the download
\* fails, or it has written the pair and returns it.
RaceDownload(p) ==
  /\ procs[p].pc = "r_download"
  /\ \E ok \in BOOLEAN :
       IF ok
       THEN /\ cache' = WriteAll(cache, <<SidecarOf(url), MediaOf(url)>>)
            /\ procs' = [procs EXCEPT ![p] =
                           [@ EXCEPT !.video = MediaOf(url), !.info = SidecarOf(url),
                                     !.pc = "r_recheck"]]
       ELSE /\ cache' = cache
            /\ procs' = [procs EXCEPT ![p] = [@ EXCEPT !.pc = "r_done", !.result = "False"]]
  /\ UNCHANGED submissions

\* Mutant of RecheckPc: a re-check that raised goes on to the upload call.
RecheckPc_ErrorSubmits(lookup) ==
  CASE lookup = "exists" -> "r_cleanup"
    [] OTHER -> "r_submit"

\* upload_to_archive after "item = internetarchive.get_item(identifier)": an
\* existing item returns True (on to the cleanup), an absent one goes on to the
\* upload call, an exception returns False (archive_url returns it).
RecheckPc(lookup) ==
  CASE lookup = "exists" -> "r_cleanup"
    [] lookup = "absent" -> "r_submit"
    [] OTHER -> "r_done"

RaceRecheck(p) ==
  /\ procs[p].pc = "r_recheck"
  /\ \E lookup \in Lookups(UploaderIdentifier(url)) :
       procs' = [procs EXCEPT ![p] =
                   [@ EXCEPT !.recheck = lookup,
                             !.pc = RecheckPc(lookup),
                             !.result = IF RecheckPc(lookup) = "r_done" THEN "False" ELSE @]]
  /\ UNCHANGED <<submissions, cache>>

\* "response = internetarchive.upload(identifier, ...)" and the test of the
\* responses.
RaceSubmit(p) ==
  /\ procs[p].pc = "r_submit"
  /\ \E raised \in BOOLEAN, resp \in SeqsUpTo(Statuses, MaxResponses) :
       /\ submissions' = Append(submissions,
                                [proc |-> p, identifier |-> UploaderIdentifier(url),
                                 existed |-> UploaderIdentifier(url) \in remote])
       /\ remote' = RemoteAfter(UploaderIdentifier(url), resp)
       /\ procs' = [procs EXCEPT ![p] =
                      IF ~raised /\ UploadSuccess(resp) THEN [@ EXCEPT !.pc = "r_cleanup"]
                      ELSE [@ EXCEPT !.pc = "r_done", !.result = "False"]]
  /\ UNCHANGED cache

\* "if success: cleanup_cache_files(video_file, info_file)"; "return success".
RaceCleanup(p) ==
  /\ procs[p].pc = "r_cleanup"
  /\ \E failVideo \in BOOLEAN, failInfo \in BOOLEAN :
       LET cleaned == CleanupCacheFiles(cache, procs[p].video, procs[p].info,
                                        failVideo, failInfo)
       IN  /\ cache' = cleaned.dir
           /\ procs' = [procs EXCEPT ![p] =
                          [@ EXCEPT !.pc = "r_done",
                                    !.result = IF ArchiveUrlResult(TRUE, cleaned.ok)
                                               THEN "True" ELSE "False"]]
  /\ UNCHANGED submissions

RaceInit ==
  /\ NoRun
  /\ cache = <<>> /\ mtimes = <<>> /\ outside = Outside /\ now = 0 /\ mgr = NoCall
  /\ raw = NoRaw /\ norm = NoNorm
  /\ NoHelperCall

Check == \E p \in Procs : RaceCheck(p) /\ UNCHANGED <<remote, raceRest>>
Download == \E p \in Procs : RaceDownload(p) /\ UNCHANGED <<remote, raceRest>>
Recheck == \E p \in Procs : RaceRecheck(p) /\ UNCHANGED <<remote, raceRest>>
Submit == \E p \in Procs : RaceSubmit(p) /\ UNCHANGED raceRest
Cleanup == \E p \in Procs : RaceCleanup(p) /\ UNCHANGED <<remote, raceRest>>

RaceNext ==
  \/ Check
  \/ Download
  \/ Recheck
  \/ Submit
  \/ Cleanup

RaceSpec == RaceInit /\ [][RaceNext]_vars

(***************************************************************************)
(* Commands: run_command(cmd, desc, check, env, timeout) of utils/system.py  *)
(* and utils/fs.py, applied once to a command whose process ends in any way. *)
(***************************************************************************)
CmdModules == {"system", "fs"}

\* The timeout argument: None, or a number of seconds.
CmdTimeouts == {0, 5}

ExitCodes == {0, 1, 2, 124}
OutTexts == {"", "test"}
ErrTexts == {"", "No such file or directory"}

\* How subprocess.run ends: the process exits with a status and its two outputs,
\* it is still running when the timeout elapses, or it could not be started (no
\* such executable, or no permission to execute it).
CmdOutcomes(timeout) ==
  {[kind |-> "exit", code |-> c, stdout |-> o, stderr |-> e] :
     c \in ExitCodes, o \in OutTexts, e \in ErrTexts}
    \cup {[kind |-> k, code |-> -1, stdout |-> "", stderr |-> ""] :
            k \in {"missing", "denied"} \cup (IF timeout # 0 THEN {"timeout"} ELSE {})}

\* What subprocess.run(cmd, check=check, ..., timeout=timeout) raises.
RunRaises(check, outcome) ==
  CASE outcome.kind = "timeout" -> "TimeoutExpired"
    [] outcome.kind = "missing" -> "FileNotFoundError"
    [] outcome.kind = "denied" -> "PermissionError"
    [] outcome.kind = "exit" /\ check /\ outcome.code # 0 -> "CalledProcessError"
    [] OTHER -> "none"

\* The subclasses of subprocess.SubprocessError; the other two are OSErrors.
SubprocessErrors == {"TimeoutExpired", "CalledProcessError"}

\* run_command: the triple it returns, or the exception that leaves it
\* (raised: "none" when it returns).
RunCommand(module, check, timeout, outcome) ==
  LET exc == RunRaises(check, outcome)
  IN  IF exc = "none"
      THEN [raised |-> "none", status |-> outcome.code, stdout |-> outcome.stdout,
            stderr |-> outcome.stderr]
      ELSE IF exc = "TimeoutExpired"
      THEN [raised |-> "none", status |-> 124, stdout |-> "", stderr |-> "Timeout"]
      ELSE IF exc \in SubprocessErrors
      THEN [raised |-> "none", status |-> 1, stdout |-> "", stderr |-> exc]
      ELSE [raised |-> exc, status |-> -1, stdout |-> "", stderr |-> ""]

CmdInit ==
  /\ NoRun
  /\ cache = <<>> /\ mtimes = <<>> /\ outside = Outside /\ now = 0 /\ mgr = NoCall
  /\ raw = NoRaw /\ norm = NoNorm
  /\ NoHelperCall

RunCommandCall ==
  /\ cmd.module = "none"
  /\ \E module \in CmdModules, check \in BOOLEAN, timeout \in CmdTimeouts :
       \E outcome \in CmdOutcomes(timeout) :
         cmd' = [module |-> module, check |-> check, timeout |-> timeout,
                 outcome |-> outcome, out |-> RunCommand(module, check, timeout, outcome)]
  /\ UNCHANGED <<cache, mgrVars, urlVars, pipeVars, ids, meta, raceVars>>

CmdNext == RunCommandCall

CmdSpec == CmdInit /\ [][CmdNext]_vars

(***************************************************************************)
(* Metadata: extract_metadata(info_file, url) of core/archive.py and        *)
(* archive/archive_org.py, applied once to a sidecar file in any state.  A  *)
(* JSON value is the text that shows it; Python's None is None.             *)
(***************************************************************************)
MetaModules == {"core", "archive_org"}

\* The keys extract_metadata reads.
MetaFields == {"title", "description", "tags", "categories", "uploader", "channel",
               "webpage_url"}

\* What an object holds under a key: nothing, null, an empty value, a value.
FieldStates == {"absent", "null", "empty", "value"}

ListFields == {"tags", "categories"}

\* The value of the key in each of its states.
ValueOf(field, state) ==
  CASE state = "null" -> None
    [] state = "empty" -> IF field \in ListFields THEN "[]" ELSE ""
    [] state = "value" ->
         CASE field = "title" -> "Some Title"
           [] field = "description" -> "About the video"
           [] field = "tags" -> "[music]"
           [] field = "categories" -> "[Entertainment]"
           [] field = "uploader" -> "Some Uploader"
           [] field = "channel" -> "Some Channel"
           [] field = "webpage_url" -> "https://www.youtube.com/watch?v=canonical"

NoObject == [f \in MetaFields |-> "absent"]

\* The states of the sidecar file: it is missing, cannot be read, is not text,
\* is not JSON, holds a JSON value that is not an object, or holds an object.
NonObjectKinds == {"array", "string", "number", "null"}
InfoKinds == {"missing", "unreadable", "binary", "invalid", "object"} \cup NonObjectKinds
InfoStates ==
  {[kind |-> k, obj |-> NoObject] : k \in InfoKinds \ {"object"}}
    \cup {[kind |-> "object", obj |-> o] : o \in [MetaFields -> FieldStates]}

\* data.get(key) and data.get(key, default) of a dict.
DictGet(obj, key) == IF obj[key] = "absent" THEN None ELSE ValueOf(key, obj[key])
DictGetDefault(obj, key, default) ==
  IF obj[key] = "absent" THEN default ELSE ValueOf(key, obj[key])

\* Python's "a or b".
Truthy(v) == v \notin {None, "", "[]"}
\* Mutant of PyOr: only None gives way to the second operand.
PyOr_UnlessNone(a, b) == IF a # None THEN a ELSE b

PyOr(a, b) == IF Truthy(a) THEN a ELSE b

\* What the body of the try block raises: open (OSError), the decoding of the
\* file (UnicodeDecodeError), json.load (JSONDecodeError), data.get on a value
\* that is no dict (AttributeError).
Raised(info) ==
  CASE info.kind \in {"missing", "unreadable"} -> "OSError"
    [] info.kind = "binary" -> "UnicodeDecodeError"
    [] info.kind = "invalid" -> "JSONDecodeError"
    [] info.kind \in NonObjectKinds -> "AttributeError"
    [] OTHER -> "none"

\* The exceptions that are subclasses of Exception.
Exceptions == {"OSError", "UnicodeDecodeError", "JSONDecodeError", "AttributeError"}

\* Mutant of Caught: the handler catches the errors of reading and parsing only.
Caught_ReadErrors(exc) == exc \in {"OSError", "UnicodeDecodeError", "JSONDecodeError"}

\* "except Exception as e".
Caught(exc) == exc \in Exceptions

Collection(module) == IF module = "core" THEN "opensource_movies" ELSE "community_video"

\* The record of the except branch.
MinimalMetadata(module, u) ==
  [title |-> "Unknown Video", source |-> u, mediatype |-> "movies",
   collection |-> Collection(module)]

NoRecord == [title |-> None, source |-> None, mediatype |-> None, collection |-> None]

\* extract_metadata(info_file, url): what leaves the function (raised: "none"
\* when it returns) and the record it returns.
ExtractMetadata(module, info, u) ==
  LET exc == Raised(info)
      data == info.obj
  IN  IF exc = "none"
      THEN [raised |-> "none",
            record |->
              [title |-> DictGetDefault(data, "title", "Untitled Video"),
               description |-> PyOr(DictGet(data, "description"), ""),
               creator |-> PyOr(PyOr(DictGet(data, "uploader"), DictGet(data, "channel")), ""),
               subject |-> PyOr(PyOr(DictGet(data, "tags"), DictGet(data, "categories")), "[]"),
               source |-> PyOr(DictGet(data, "webpage_url"), u),
               mediatype |-> "movies",
               collection |-> Collection(module)]]
      ELSE IF Caught(exc)
      THEN [raised |-> "none", record |-> MinimalMetadata(module, u)]
      ELSE [raised |-> exc, record |-> NoRecord]

MetaInit ==
  /\ NoRun
  /\ cache = <<>> /\ mtimes = <<>> /\ outside = Outside /\ now = 0 /\ mgr = NoCall
  /\ raw = NoRaw /\ norm = NoNorm
  /\ NoHelperCall

ExtractMetadataCall ==
  /\ meta.module = "none"
  /\ \E module \in MetaModules, info \in InfoStates, u \in Urls :
       meta' = [module |-> module, info |-> info, url |-> u,
                out |-> ExtractMetadata(module, info, u)]
  /\ UNCHANGED <<cache, mgrVars, urlVars, pipeVars, ids, cmd, raceVars>>

MetaNext == ExtractMetadataCall

MetaSpec == MetaInit /\ [][MetaNext]_vars

(***************************************************************************)
(* The claims.                                                             *)
(***************************************************************************)
CoreVariants == {"launcher", "archive"}
ArchiveUrlVariants == {"launcher", "archive", "ytdlp"}

\* C1: in every run, once the existence check has reported the identifier as
\* existing, the downloader has not been and is not invoked (no format is tried).
C1_NoDownloadWhenFound == checkResult # None => dlCalls = <<>>

\* C1 witness: a launcher run whose existence check found the item ends with
\* status 0.
C1_Witness ==
  /\ variant = "launcher" /\ pc = "done" /\ exitStatus = 0
  /\ checkLookup = "exists" /\ checkResult # None

\* C2 (as claimed): whenever archive_url has deleted the pair, the remote archive
\* holds an item under the identifier of the URL.
C2_DeletedOnlyWithRemoteCopy ==
  (/\ variant \in ArchiveUrlVariants
   /\ cleanupCalls > 0
   /\ cacheAtUpload # cache
   /\ ~Exists(cache, videoFile) /\ ~Exists(cache, infoFile))
  => GenerateArchiveId(url, Login) \in remote

\* C3: archive_url calls the pair cleanup if and only if the uploader returned
\* success, and after a failed upload the cache directory is as the download left it.
C3_CleanupIffUploadSucceeded ==
  variant \in ArchiveUrlVariants =>
    /\ cleanupCalls > 0 => uploadResult = "True"
    /\ (result # "none" /\ uploadResult = "True") => cleanupCalls = 1
    /\ uploadResult = "False" => (cleanupCalls = 0 /\ cache = cacheAtUpload)

\* C3 witness: archive_url has returned after a failed upload call and both files
\* of the pair are still there.
C3_Witness ==
  /\ variant \in ArchiveUrlVariants /\ result = "False" /\ uploadCalls = 1
  /\ uploadResult = "False" /\ Exists(cache, videoFile) /\ Exists(cache, infoFile)

\* C4: after a re-check that found the identifier absent, an upload call that
\* returned its responses is a success exactly when every response has status 200.
C4_SuccessIffAllOk ==
  (recheck = "absent" /\ uploadCalls = 1 /\ ~uploadRaised) =>
    (uploadResult = "True" <=> {responses[i] : i \in 1..Len(responses)} \subseteq {200})

\* C4 witness: a two-file submission with one part at 200 and one part failing
\* is reported failed.
C4_Witness ==
  /\ recheck = "absent" /\ uploadCalls = 1 /\ ~uploadRaised
  /\ responses = <<200, 503>> /\ uploadResult = "False"

\* C5 (as claimed): the upload call is made only after a re-check that reported
\* the item absent, and a re-check that found the item makes no upload call and
\* returns success.
C5_UploadOnlyAfterAbsent ==
  /\ uploadCalls > 0 => recheck = "absent"
  /\ recheck = "exists" => (uploadCalls = 0 /\ uploadResult = "True")

\* C6: check_archive_status returns "https://archive.org/details/<identifier>",
\* the identifier being generate_archive_id(url), when the item exists, and None
\* when it does not.
C6_DetailsUrlOrNone ==
  checkCalls > 0 =>
    /\ checkLookup = "exists" =>
         /\ checkResult = "https://archive.org/details/yt-mpv-" \o Login \o "-" \o Sha1Hex8(url)
         /\ GenerateArchiveId(url, None) \in remote
    /\ checkLookup = "absent" => checkResult = None

\* C6 witness: the item of the YouTube URL exists and its details URL is returned.
C6_Witness ==
  /\ url = YtUrl /\ checkLookup = "exists"
  /\ checkResult = "https://archive.org/details/yt-mpv-operator-df2c6f7a"

\* C7: a failure inside the existence check (the client cannot be imported, the
\* lookup raises) gives None, and archive_url then goes on: the run does not end
\* before the downloader was invoked, and a downloaded pair is handed to the uploader
\* (in a run the user does not interrupt).
C7_CheckFailureProceeds ==
  (/\ variant \in CoreVariants /\ checkLookup \in {"importerror", "error"}
   /\ interrupted.at = "none") =>
    /\ checkResult = None
    /\ pc = "done" => dlCalls # <<>>
    /\ (pc = "done" /\ infoFile # NoFile) => uploadResult # "none"

\* C7 witness: the lookup raised, and the run went on to download and to call the
\* upload.
C7_Witness ==
  /\ variant = "archive" /\ checkLookup = "error" /\ pc = "done"
  /\ dlCalls # <<>> /\ uploadCalls = 1

\* C8: download_video invokes the downloader with the format specifications in
\* their listed order, at most once each, and tries no further one after the
\* first attempt that exited 0 and gave a located media file (in a run the user
\* does not interrupt, every format is tried until then).
C8_FormatsInOrderUntilFound ==
  (variant \in CoreVariants /\ interrupted.at = "none") =>
    /\ Len(dlCalls) <= 4
    /\ \A i \in 1..Len(dlCalls) :
         dlCalls[i] = <<"b[ext=mp4]", "22/best[height<=720][ext=mp4]", "18", "worst">>[i]
    /\ videoFile # NoFile => (pc # "a_download" /\ lastRc = 0 /\ Len(dlCalls) = fmtIdx)
    /\ (videoFile = NoFile /\ pc \notin {"a_download", "a_info"} /\ dlCalls # <<>>) => Len(dlCalls) = 4

\* C8 witness: the second format was the first to succeed and no third was tried.
C8_Witness ==
  /\ variant \in CoreVariants /\ pc = "done" /\ videoFile # NoFile
  /\ dlCalls = <<"b[ext=mp4]", "22/best[height<=720][ext=mp4]">>

\* C9 (as claimed): after an attempt that exited 0, if the printed output gives no
\* usable file name but a media file with the expected base name is in the cache
\* directory, the orchestrator resolves a media file.
C9_GlobFallbackResolves ==
  (/\ variant \in CoreVariants
   /\ pc \in {"a_download", "a_info"}
   /\ lastRc = 0
   /\ ParsePrintedFile(lastStdout, cache) = NoFile
   /\ \E f \in Range(cache) :
        /\ f.extractor = ExtractVideoId(url).extractor
        /\ f.id = ExtractVideoId(url).id
        /\ ~IsSidecar(f))
  => videoFile # NoFile

\* C10 (as claimed): the video file resolved by a download function never ends
\* in ".info.json".
C10_VideoFileNeverSidecar == ~IsSidecar(videoFile)


\* C11: in core/archive.py, when every format attempt failed or no sidecar was
\* located after a located media file, download_video returned None: archive_url
\* returns False (the launcher exits 1), and neither the uploader (its re-check,
\* its upload call) nor the pair cleanup was invoked in the run.  (A run the user
\* interrupts during the download returns nothing.)
C11_DownloadFailureStops ==
  (/\ variant \in CoreVariants
   /\ interrupted.at = "none"
   /\ dlCalls # <<>>
   /\ pc \notin {"a_download", "a_info"}
   /\ (videoFile = NoFile \/ infoFile = NoFile))
  => /\ pc = "done"
     /\ result = "False"
     /\ (variant = "launcher" => exitStatus = 1)
     /\ recheck = "none" /\ uploadCalls = 0 /\ uploadResult = "none"
     /\ cleanupCalls = 0

\* A run of archive_url in which an attempt located a media file and no sidecar
\* was found.
C11_Witness ==
  /\ variant \in CoreVariants
  /\ pc = "done"
  /\ videoFile # NoFile /\ infoFile = NoFile
  /\ result = "False"


\* C12: a purge_cache call that returns has unlinked exactly the files of the
\* directory whose age is strictly greater than maxAge, less those whose unlink
\* failed; it returns their number and the sum of their sizes.  Without a fault
\* the directory is left with exactly the files of age <= maxAge.
C12_PurgeDeletesOld ==
  (mgr.op \in {"purge", "purge_fs"} /\ ~mgr.out.raised) =>
    LET files == Range(mgr.before)
        old == {f \in files : mgr.at - mgr.beforeMt[f] > mgr.maxAge}
        faulted == {a[1] : a \in mgr.faults}
        disappeared == {a[1] : a \in {b \in mgr.faults : b[2] # "denied"}}
        deleted == {e.file : e \in mgr.out.deleted}
    IN  /\ \A e \in mgr.out.deleted : e.place = CacheDir /\ e.kind = "file"
        /\ deleted = old \ faulted
        /\ mgr.out.count = Cardinality(deleted)
        /\ mgr.out.bytes = SumSizes(deleted)
        /\ Range(cache) = files \ (deleted \cup disappeared)
        /\ (mgr.faults = {} =>
              Range(cache) = {f \in files : mgr.at - mgr.beforeMt[f] <= mgr.maxAge})

\* A purge without a fault that kept a file whose age equals the threshold and
\* unlinked an older one.
C12_Witness ==
  /\ mgr.op = "purge" /\ mgr.faults = {} /\ ~mgr.out.raised
  /\ \E f \in Range(mgr.before), g \in Range(mgr.before) :
       /\ mgr.at - mgr.beforeMt[f] = mgr.maxAge /\ f \in Range(cache)
       /\ mgr.at - mgr.beforeMt[g] > mgr.maxAge /\ g \notin Range(cache)
  /\ mgr.out.count >= 1

\* C13: a scan that returns lists every regular file of the cache directory
\* exactly once, with its size and age, oldest first, and reports their number
\* and the sum of their sizes; the directory it lists is the one the calls
\* before it left.
C13_ScanListsAllOldestFirst ==
  (mgr.op = "info" /\ ~mgr.out.raised) =>
    LET listed == mgr.out.listed
        files == Range(mgr.before)
    IN  /\ mgr.before = cache
        /\ Len(listed) = Cardinality(files)
        /\ {listed[i].path : i \in 1..Len(listed)} = {Entry(CacheDir, "file", f) : f \in files}
        /\ \A i \in 1..Len(listed) :
             /\ listed[i].size = SizeOf(listed[i].path.file)
             /\ listed[i].age_days = mgr.at - mgr.beforeMt[listed[i].path.file]
        /\ \A i \in 1..Len(listed), j \in 1..Len(listed) :
             i < j => listed[i].age_days >= listed[j].age_days
        /\ mgr.out.count = Cardinality(files)
        /\ mgr.out.bytes = SumSizes(files)

\* A scan after a purge, of files of different ages.
C13_Witness ==
  /\ mgr.op = "info" /\ ~mgr.out.raised /\ mgr.prev = "purge"
  /\ Len(mgr.out.listed) >= 2
  /\ mgr.out.listed[1].age_days > mgr.out.listed[2].age_days

\* C14: a clean_all_cache call that returns has unlinked every file of the
\* directory, less those whose unlink failed, and returns their number and the
\* sum of their sizes; without a fault that is every file and the total size,
\* and the directory has no file left; the call after such a call returns (0, 0).
C14_ClearDeletesAll ==
  (mgr.op = "clear" /\ ~mgr.out.raised) =>
    LET files == Range(mgr.before)
        faulted == {a[1] : a \in mgr.faults}
        disappeared == {a[1] : a \in {b \in mgr.faults : b[2] # "denied"}}
        deleted == {e.file : e \in mgr.out.deleted}
    IN  /\ deleted = files \ faulted
        /\ mgr.out.count = Cardinality(deleted)
        /\ mgr.out.bytes = SumSizes(deleted)
        /\ Range(cache) = files \ (deleted \cup disappeared)
        /\ (mgr.faults = {} =>
              /\ cache = <<>>
              /\ mgr.out.count = Len(mgr.before)
              /\ mgr.out.bytes = SumSizes(files))
        /\ (mgr.prev = "clear" => mgr.out.count = 0 /\ mgr.out.bytes = 0)

\* A clear without a fault of a directory of three files.
C14_Witness ==
  /\ mgr.op = "clear" /\ mgr.faults = {} /\ ~mgr.out.raised
  /\ Range(mgr.before) = ManagedFiles
  /\ cache = <<>>
  /\ mgr.out.count = Cardinality(ManagedFiles)
  /\ mgr.out.bytes = SumSizes(ManagedFiles)

\* C15: cleanup_cache_files attempts the unlink of each of the two files that
\* exists when its turn comes, returns True iff no attempted unlink failed (a
\* missing file is no failure), and a failed unlink of the video file does not
\* stop the attempt on the info file.
C15_PairCleanup ==
  mgr.op = "pair" =>
    LET p == mgr.pair
        videoTried == Exists(mgr.before, p.video)
        videoGone == videoTried /\ ~p.failVideo
        infoTried == Exists(mgr.before, p.info) /\ ~(p.info = p.video /\ videoGone)
        infoGone == infoTried /\ ~p.failInfo
    IN  /\ p.ok <=> ~(videoTried /\ p.failVideo) /\ ~(infoTried /\ p.failInfo)
        /\ Range(cache) = Range(mgr.before) \
                            ((IF videoGone THEN {p.video} ELSE {}) \cup
                             (IF infoGone THEN {p.info} ELSE {}))
        /\ (~videoTried /\ ~infoTried => p.ok /\ cache = mgr.before)

\* A pair cleanup whose unlink of the video failed and which then unlinked the
\* info file.
C15_Witness ==
  /\ mgr.op = "pair"
  /\ Exists(mgr.before, mgr.pair.video) /\ mgr.pair.failVideo
  /\ mgr.pair.video # mgr.pair.info
  /\ Exists(mgr.before, mgr.pair.info) /\ ~mgr.pair.failInfo
  /\ ~Exists(cache, mgr.pair.info) /\ Exists(cache, mgr.pair.video)
  /\ ~mgr.pair.ok

\* C16: whatever the manager is called to do, the entries that are not regular
\* files directly inside the cache directory (its subdirectories, their
\* contents, files elsewhere) stay as they were, and every unlinked entry was a
\* regular file directly inside it.
C16_OutsideUntouched ==
  /\ outside = Outside
  /\ \A e \in mgr.out.deleted : e.place = CacheDir /\ e.kind = "file"

\* A clear that unlinked files, called after a purge.
C16_Witness ==
  /\ mgr.op = "clear" /\ mgr.prev = "purge"
  /\ mgr.out.count > 0
  /\ outside = Outside

\* C17: in purge_cache and clean_all_cache no fault on one file (its stat, its
\* unlink, its disappearance) aborts the call: the call returns, every other
\* eligible file has been unlinked, and the count and bytes cover the files
\* unlinked.
C17_FaultDoesNotAbort ==
  mgr.op \in {"purge", "purge_fs", "clear"} =>
    LET files == Range(mgr.before)
        eligible == IF mgr.op = "clear" THEN files
                    ELSE {f \in files : mgr.at - mgr.beforeMt[f] > mgr.maxAge}
        faulted == {a[1] : a \in mgr.faults}
        deleted == {e.file : e \in mgr.out.deleted}
    IN  /\ ~mgr.out.raised
        /\ eligible \ faulted \subseteq deleted
        /\ mgr.out.count = Cardinality(deleted)
        /\ mgr.out.bytes = SumSizes(deleted)


\* C18 as stated: each get_real_url turns a leading "x-yt-mpv:" into "http:"
\* and a leading "x-yt-mpvs:" into "https:" in front of what followed the
\* scheme, and returns a URL of another scheme without custom parameters as it is.
C18_RewritesScheme ==
  norm.op \in {"get_real_url", "utils_get_real_url", "launch_main"} =>
    LET u == Assemble(raw)
        custom == \E i \in 1..Len(raw.fields) :
                    \/ StartsWith(raw.fields[i], <<"url", "=">>)
                    \/ StartsWith(raw.fields[i], <<"archive", "=">>)
    IN  /\ raw.scheme = XYtMpv =>
             SplitOnce(norm.url, <<"?">>)[1] = Http \o Drop(SplitOnce(u, <<"?">>)[1], Len(XYtMpv))
        /\ raw.scheme = XYtMpvs =>
             SplitOnce(norm.url, <<"?">>)[1] = Https \o Drop(SplitOnce(u, <<"?">>)[1], Len(XYtMpvs))
        /\ (raw.scheme \notin {XYtMpv, XYtMpvs} /\ ~custom) => norm.url = u

\* C18, amended: the same for a raw URL without a "url" parameter (with one,
\* utils/url.py returns the decoded parameter); without any custom parameter the
\* whole result is the raw URL with only its leading scheme replaced.
C18_RewritesSchemeWithoutUrlParam ==
  norm.op \in {"get_real_url", "utils_get_real_url", "launch_main"} =>
    LET u == Assemble(raw)
        hasUrl == \E i \in 1..Len(raw.fields) : StartsWith(raw.fields[i], <<"url", "=">>)
        hasArchive == \E i \in 1..Len(raw.fields) : StartsWith(raw.fields[i], <<"archive", "=">>)
    IN  /\ (raw.scheme = XYtMpv /\ (~hasUrl \/ norm.op # "get_real_url")) =>
             /\ SplitOnce(norm.url, <<"?">>)[1]
                  = Http \o Drop(SplitOnce(u, <<"?">>)[1], Len(XYtMpv))
             /\ (~hasUrl /\ ~hasArchive => norm.url = Http \o Drop(u, Len(XYtMpv)))
        /\ (raw.scheme = XYtMpvs /\ (~hasUrl \/ norm.op # "get_real_url")) =>
             /\ SplitOnce(norm.url, <<"?">>)[1]
                  = Https \o Drop(SplitOnce(u, <<"?">>)[1], Len(XYtMpvs))
             /\ (~hasUrl /\ ~hasArchive => norm.url = Https \o Drop(u, Len(XYtMpvs)))
        /\ (raw.scheme \notin {XYtMpv, XYtMpvs} /\ ~hasUrl /\ ~hasArchive) => norm.url = u

\* utils/url.py get_real_url on "x-yt-mpvs://y.test/x-yt-mpv:v" with non-custom
\* fields only: the second "x-yt-mpv:" is still there.
C18_Witness ==
  /\ norm.op = "get_real_url"
  /\ raw.scheme = XYtMpvs
  /\ raw.fields = <<<<"v", "=", "abc">>>>
  /\ norm.url = Https \o Drop(Assemble(raw), Len(XYtMpvs))
  /\ Contains(norm.url, XYtMpv)

\* C19: for a raw URL without a "url" parameter, the URL core/launcher.py main
\* goes on with is the raw URL with its scheme replaced and its "archive="
\* fields removed, the other fields as they were and in their order: the same
\* URL whatever the archive parameter.
C19_ArchiveParamStripped ==
  (/\ norm.op = "launcher_main"
   /\ ~\E i \in 1..Len(raw.fields) : StartsWith(raw.fields[i], <<"url", "=">>))
  => LET NotArchive(field) == ~StartsWith(field, <<"archive", "=">>)
         stripped == [raw EXCEPT !.fields = SelectSeq(raw.fields, NotArchive)]
     IN  /\ norm.url = ReplaceScheme(Assemble(stripped))
         /\ ~Contains(norm.url, <<"archive", "=">>)

\* C20: for a raw URL with a "url" parameter, the URL core/launcher.py main and
\* utils/url.py get_real_url give is the raw value of the (first) "url" field,
\* percent-decoded once.
C20_UrlParamDecodedOnce ==
  (/\ norm.op \in {"launcher_main", "get_real_url"}
   /\ \E i \in 1..Len(raw.fields) : StartsWith(raw.fields[i], <<"url", "=">>))
  => LET first == CHOOSE i \in 1..Len(raw.fields) :
                    /\ StartsWith(raw.fields[i], <<"url", "=">>)
                    /\ \A j \in 1..(i - 1) : ~StartsWith(raw.fields[j], <<"url", "=">>)
     IN  norm.url = Unquote(Drop(raw.fields[first], 2))


(***************************************************************************)
(* The pipeline controller: the archive flag, the URL validation, the      *)
(* order of the steps, failures and interruption.                           *)
(***************************************************************************)
\* The step has ended with this outcome in the run.
Did(name, ok) == \E i \in 1..Len(steps) : steps[i] = [name |-> name, ok |-> ok]

\* C21: the launcher archives exactly when the raw URL has no "archive" parameter
\* or its value is "1"; with any other value ("0") no existence check, download,
\* upload or cleanup is performed, and once playback has succeeded the run is over
\* with exit status 0.  With the parameter absent or "1", a run that has played
\* and is over without an interruption has performed the existence check.
C21_ArchiveFlagDecides ==
  (variant = "launcher" /\ Did("Normalizing", TRUE)) =>
    LET wanted == ArchiveField(raw.fields) \in {None, "1"}
    IN  /\ shouldArchive = wanted
        /\ ~wanted =>
              /\ checkCalls = 0 /\ dlCalls = <<>> /\ recheck = "none"
              /\ uploadCalls = 0 /\ cleanupCalls = 0 /\ result = "none"
              /\ Did("Playing", TRUE) => (pc = "done" /\ exitStatus = 0)
        /\ (wanted /\ Did("Playing", TRUE) /\ pc = "done" /\ interrupted.at = "none")
              => checkCalls > 0

\* C21 witness: "archive=0", playback succeeded, the run is over with status 0.
C21_Witness ==
  /\ variant = "launcher" /\ ArchiveField(raw.fields) = "0"
  /\ url = GenUrl
  /\ Did("Playing", TRUE) /\ pc = "done" /\ exitStatus = 0

\* The string starts with "http://" or "https://".
MatchesHttp(str) ==
  \/ Len(str) >= 7 /\ SubSeq(str, 1, 7) = "http://"
  \/ Len(str) >= 8 /\ SubSeq(str, 1, 8) = "https://"

\* C22: when the URL main has normalised does not start with "http://" or
\* "https://", the run is over with exit status 1 and the URL validation was its
\* only step: no dependency check, update, purge, playback, existence check,
\* download or upload has happened.
C22_InvalidUrlFailsFirst ==
  (variant \in MainVariants /\ norm.op = "main" /\ ~MatchesHttp(url)) =>
    /\ pc = "done" /\ exitStatus = 1
    /\ steps = <<[name |-> "Normalizing", ok |-> FALSE]>>
    /\ checkCalls = 0 /\ dlCalls = <<>> /\ recheck = "none" /\ uploadCalls = 0
    /\ cleanupCalls = 0

\* C22 witness: the bookmarklet format with an ftp URL as its target.
C22_Witness ==
  /\ variant = "launcher" /\ url = "ftp://vimeo.com/12345"
  /\ HasParam(ParseUrlParams(Assemble(raw)), <<"url">>)
  /\ pc = "done" /\ exitStatus = 1

\* The place of a step in an order of the steps, 0 for a step the order leaves out.
Rank(order, name) ==
  IF \E k \in 1..Len(order) : order[k] = name
  THEN CHOOSE k \in 1..Len(order) : order[k] = name
  ELSE 0

\* The steps of the run that the order names have happened in that order.
InOrder(order) ==
  \A i \in 1..Len(steps), j \in 1..Len(steps) :
    (i < j /\ Rank(order, steps[i].name) # 0 /\ Rank(order, steps[j].name) # 0)
      => Rank(order, steps[i].name) <= Rank(order, steps[j].name)

\* C25: the launcher visits its steps in the order Normalizing,
\* CheckingExistence, Playing, DecidingArchive, Downloading, ExtractingMetadata,
\* Uploading, CleaningUp: a playback is preceded by the existence check of the
\* run, and no existence check follows it.
C25_CheckBeforePlayback ==
  variant = "launcher" =>
    /\ InOrder(<<"Normalizing", "CheckingExistence", "Playing", "DecidingArchive",
                 "Downloading", "ExtractingMetadata", "Uploading", "CleaningUp">>)
    /\ \A i \in 1..Len(steps) :
         steps[i].name = "Playing" =>
           \E j \in 1..(i - 1) : steps[j].name = "CheckingExistence"

\* C25 as amended: the launcher visits its steps in the order Normalizing,
\* Dependencies, Updating, Purging, Playing, DecidingArchive, CheckingExistence,
\* Downloading, ExtractingMetadata, Uploading, CleaningUp; the existence check
\* happens only after a playback that succeeded, with the archive flag set, and
\* the downloader is invoked only after an existence check.
C25_CheckAfterPlayback ==
  variant = "launcher" =>
    /\ InOrder(<<"Normalizing", "Dependencies", "Updating", "Purging", "Playing",
                 "DecidingArchive", "CheckingExistence", "Downloading",
                 "ExtractingMetadata", "Uploading", "CleaningUp">>)
    /\ \A i \in 1..Len(steps) :
         steps[i].name = "CheckingExistence" =>
           /\ shouldArchive
           /\ \E j \in 1..(i - 1) : steps[j] = [name |-> "Playing", ok |-> TRUE]
    /\ checkCalls > 0 => Did("DecidingArchive", TRUE)
    /\ dlCalls # <<>> => Did("CheckingExistence", TRUE)

\* C25 witness: a run of the launcher through all its steps.
C25_Witness ==
  /\ variant = "launcher" /\ pc = "done" /\ exitStatus = 0
  /\ Did("Playing", TRUE) /\ Did("CheckingExistence", TRUE) /\ Did("Downloading", TRUE)
  /\ Did("ExtractingMetadata", TRUE) /\ Did("Uploading", TRUE) /\ Did("CleaningUp", TRUE)

\* The steps whose failure ends the run.
FailingSteps ==
  {"Normalizing", "Dependencies", "Playing", "Downloading", "ExtractingMetadata", "Uploading"}

\* C26: a step that failed (dependency check, playback, download, upload; the
\* URL validation too) is the last step of its run: no cleanup and no other step
\* has followed it, the run is over or on its way out of archive_url, and it is
\* over with exit status 1 (archive_url called on its own has returned False);
\* once over, the run takes no further step.
C26_FailureEndsRun ==
  /\ \A i \in 1..Len(steps) :
       (steps[i].name \in FailingSteps /\ ~steps[i].ok) =>
         /\ i = Len(steps)
         /\ cleanupCalls = 0
         /\ pc \in {"done", "a_cleanup", "g_exit"}
         /\ pc = "done" =>
               IF variant \in MainVariants THEN exitStatus = 1 ELSE result = "False"
  /\ pc = "done" => ~ENABLED Next

\* C26 witness: the upload of the launcher failed after a download.
C26_Witness ==
  /\ variant = "launcher" /\ pc = "done" /\ exitStatus = 1
  /\ Did("Downloading", TRUE) /\ Did("Uploading", FALSE) /\ uploadCalls = 1

\* C27: when the pair cleanup has reported a failure, the upload had succeeded
\* and archive_url has returned True all the same; the launcher ends with status 0.
C27_CleanupFailureKeepsSuccess ==
  (variant \in ArchiveUrlVariants /\ cleanupOk = "False") =>
    /\ uploadResult = "True"
    /\ pc = "done" /\ result = "True"
    /\ variant = "launcher" => exitStatus = 0

\* C27 witness: the media file could not be deleted and is still there.
C27_Witness ==
  /\ variant = "launcher" /\ cleanupOk = "False" /\ uploadCalls = 1
  /\ Exists(cache, videoFile) /\ ~Exists(cache, infoFile)
  /\ exitStatus = 0

(***************************************************************************)
(* Identifiers.                                                            *)
(***************************************************************************)
\* The username a call of generate_archive_id uses.
UserOf(call) == IF call.username = None THEN Login ELSE call.username

HexDigits == {"0", "1", "2", "3", "4", "5", "6", "7", "8", "9", "a", "b", "c", "d", "e", "f"}
IsHex8(str) == Len(str) = 8 /\ \A k \in 1..8 : SubSeq(str, k, k) \in HexDigits

C24_DatedIdentifier ==
  \A i \in 1..Len(ids) :
    (ids[i].module = "fs" /\ ids[i].username = None) =>
      LET id == ids[i].id
          IsDigits(str) == \A k \in 1..Len(str) :
                             SubSeq(str, k, k) \in (HexDigits \ {"a", "b", "c", "d", "e", "f"})
      IN  /\ Len(id) <= 80
          /\ Len(id) >= 21
          /\ IsDigits(SubSeq(id, 1, 4)) /\ SubSeq(id, 5, 5) = "_"
          /\ IsDigits(SubSeq(id, 6, 7)) /\ SubSeq(id, 8, 8) = "_"
          /\ IsDigits(SubSeq(id, 9, 10)) /\ SubSeq(id, 11, 11) = "-"
          /\ SubSeq(id, Len(id) - 8, Len(id) - 8) = "-"
          /\ SubSeq(id, Len(id) - 7, Len(id)) = SubSeq(Md5Hex11(ids[i].url), 1, 8)


C28_CacheCommandExitsZero ==
  (mgr.last.op \in CliCacheOps /\ ~mgr.last.raised) => mgr.last.exit = 0


(***************************************************************************)
(* Metadata.                                                                *)
(***************************************************************************)

\* The cases in which extract_metadata has no source of its own: the sidecar
\* gave no object, or the object has no usable "webpage_url".
Degraded(info) ==
  info.kind # "object" \/ info.obj["webpage_url"] \in {"absent", "null", "empty"}

\* C30: extract_metadata never raises: whatever the state of the sidecar file
\* (missing, unreadable, not valid JSON, JSON that is not an object, an object with
\* any subset of the fields), it returns a metadata record, and in the degraded
\* cases the source of the record is the original URL.
C30_ExtractMetadataNeverRaises ==
  meta.module # "none" =>
    /\ meta.out.raised = "none"
    /\ {"title", "source", "mediatype", "collection"} \subseteq DOMAIN meta.out.record
    /\ meta.out.record.mediatype = "movies"
    /\ meta.info.kind # "object" => meta.out.record = MinimalMetadata(meta.module, meta.url)
    /\ Degraded(meta.info) => meta.out.record.source = meta.url

\* The sidecar holds a JSON array: data.get fails, the minimal record is returned.
C30_Witness ==
  /\ meta.module # "none"
  /\ meta.info.kind = "array"
  /\ meta.out.raised = "none"
  /\ meta.out.record.title = "Unknown Video"
  /\ meta.out.record.source = meta.url


\* The first of the keys that the object holds with a non-empty value, else the
\* fallback.
FirstNonEmpty(obj, keys, fallback) ==
  IF obj[keys[1]] = "value" THEN ValueOf(keys[1], "value")
  ELSE IF Len(keys) > 1 /\ obj[keys[2]] = "value" THEN ValueOf(keys[2], "value")
  ELSE fallback

\* C31: for a readable sidecar object, subject is tags if non-empty, else
\* categories if non-empty, else []; creator is uploader if non-empty, else channel
\* if non-empty, else ''; description is '' when absent or null; source is
\* webpage_url if non-empty, else the original URL.
C31_FallbackChains ==
  (meta.module # "none" /\ meta.info.kind = "object") =>
    /\ meta.out.raised = "none"
    /\ meta.out.record.subject = FirstNonEmpty(meta.info.obj, <<"tags", "categories">>, "[]")
    /\ meta.out.record.creator = FirstNonEmpty(meta.info.obj, <<"uploader", "channel">>, "")
    /\ meta.info.obj["description"] \in {"absent", "null"} => meta.out.record.description = ""
    /\ meta.out.record.description = FirstNonEmpty(meta.info.obj, <<"description">>, "")
    /\ meta.out.record.source = FirstNonEmpty(meta.info.obj, <<"webpage_url">>, meta.url)

\* The tags are an empty list and the uploader is null: the categories and the
\* channel are taken; there is no webpage_url.
C31_Witness ==
  /\ meta.module # "none"
  /\ meta.info.kind = "object"
  /\ meta.info.obj["tags"] = "empty" /\ meta.info.obj["categories"] = "value"
  /\ meta.info.obj["uploader"] = "null" /\ meta.info.obj["channel"] = "value"
  /\ meta.info.obj["webpage_url"] = "absent"
  /\ meta.out.record.subject = "[Entertainment]"
  /\ meta.out.record.creator = "Some Channel"
  /\ meta.out.record.source = meta.url

\* C32: every metadata record built for an upload, on the normal and on the
\* degraded path and in every module, has mediatype 'movies' and collection
\* 'opensource_movies'.
C32_FixedConstants ==
  (meta.module # "none" /\ meta.out.raised = "none") =>
    /\ meta.out.record.mediatype = "movies"
    /\ meta.out.record.collection = "opensource_movies"

UploadMetadataFields ==
  {"title", "description", "creator", "subject", "source", "mediatype", "collection"}

IsList(v) == v \in {"[]"} \cup {ValueOf(f, "value") : f \in ListFields}

\* C33: every record extract_metadata returns has the seven fields title,
\* description, creator, subject, source, mediatype and collection; title is a
\* string, the placeholder when the sidecar has no title (absent or null), and
\* subject is a list; also on the degraded path.
C33_SevenFields ==
  (meta.module # "none" /\ meta.out.raised = "none") =>
    /\ DOMAIN meta.out.record = UploadMetadataFields
    /\ meta.out.record.title # None
    /\ (meta.info.kind = "object" /\ meta.info.obj["title"] \in {"absent", "null"})
         => meta.out.record.title = "Untitled Video"
    /\ IsList(meta.out.record.subject)


(***************************************************************************)
(* The downloaded pair.                                                     *)
(***************************************************************************)

\* C34: for every URL, not only YouTube URLs, when a downloader attempt exits 0
\* and has written a media file and its sidecar under the names the downloader
\* chose, download_video returns that pair and reports no incomplete download.
C34_DownloaderNamesAccepted ==
  (/\ variant \in CoreVariants \cup LegacyVariants
   /\ interrupted.at = "none"
   /\ lastRc = 0
   /\ videoFile = MediaOf(url)
   /\ Exists(cache, MediaOf(url)) /\ Exists(cache, SidecarOf(url)))
  => ~Did("Downloading", FALSE)


\* The two names are "<base>.<ext>" and "<base>.info.json" of one base.
SiblingNames(video, info) ==
  /\ SameBase(video, info)
  /\ info.exts = <<"info", "json">>
  /\ Len(video.exts) = 1
  /\ video # info

\* C35: every (videoFile, infoFile) pair a download function returns is two files
\* of the cache directory that share one base name, infoFile "<base>.info.json"
\* and videoFile "<base>.<ext>", also when the cache directory already held
\* sidecar or media files of earlier downloads of other videos.
C35_PairSharesBase ==
  Did("Downloading", TRUE) =>
    /\ Exists(cacheAtUpload, videoFile) /\ Exists(cacheAtUpload, infoFile)
    /\ SiblingNames(videoFile, infoFile)


(***************************************************************************)
(* The identifier of a run.                                                 *)
(***************************************************************************)

\* C36: the identifier the existence checker looks up for a URL is the
\* identifier under which the uploader re-checks and submits that URL, in every
\* run of the same operator.
C36_OneIdentifier ==
  /\ (checkedId # "" /\ uploadId # "") => checkedId = uploadId
  /\ checkResult # None => checkResult = DetailsUrl(UploaderIdentifier(url))
  /\ uploadId # "" => remote \subseteq {uploadId}

\* A run has checked, re-checked and submitted.
C36_Witness ==
  /\ checkedId # "" /\ uploadId # ""
  /\ checkCalls >= 1
  /\ uploadCalls = 1
  /\ uploadId \in remote


(***************************************************************************)
(* Run after run, and runs side by side.                                    *)
(***************************************************************************)

\* C37: across runs on one cache directory, also when a run was interrupted in
\* its download and the same URL is archived later, a media file that is
\* submitted to the remote archive is a file that was downloaded to the end: a
\* file an interrupted download left is never uploaded and then deleted.
C37_OnlyCompleteFilesUploaded ==
  (variant = "ytdlp" /\ uploadCalls >= 1) => videoFile \notin partial


SubmissionsOf(p) == {i \in 1..Len(submissions) : submissions[i].proc = p}

\* C38 (as claimed): no identifier receives an upload call once an item exists
\* under it, also when two invocations for the same URL by the same operator
\* interleave their check, download, upload and cleanup steps.
C38_NoDuplicateSubmission ==
  \A i \in 1..Len(submissions) : ~submissions[i].existed

\* C38 (amended): an invocation makes at most one upload call, and only after its
\* own re-check answered that the item is absent; an invocation whose check or
\* re-check found the item, or whose re-check raised, makes none; and when the
\* invocations run one after the other, no upload call is made for an identifier
\* whose item exists.
C38_GuardedWithinRun ==
  /\ \A p \in Procs :
       /\ Cardinality(SubmissionsOf(p)) <= 1
       /\ SubmissionsOf(p) # {} => procs[p].recheck = "absent"
       /\ (procs[p].check = "exists" \/ procs[p].recheck \in {"exists", "error"})
            => SubmissionsOf(p) = {}
  /\ (\A p \in Procs : ~procs[p].overlapped) => C38_NoDuplicateSubmission

\* One invocation has uploaded; the other, begun after it, did not find the item
\* at its check (the lookup raised), downloaded, found the item at its re-check
\* and made no upload call.
C38_Witness ==
  /\ \A p \in Procs : procs[p].pc = "r_done" /\ ~procs[p].overlapped
  /\ Len(submissions) = 1
  /\ submissions[1].identifier \in remote
  /\ \E p \in Procs : procs[p].check = "error" /\ procs[p].recheck = "exists"


(***************************************************************************)
(* Commands.                                                                *)
(***************************************************************************)

\* C39: run_command always returns a (status, stdout, stderr) triple and never
\* raises: with check=False it returns the exit status of the process, on timeout
\* it returns status 124, and on any other failure to run the command, a missing
\* executable included, it returns a non-zero status.
C39_RunCommandNeverRaises ==
  cmd.module # "none" =>
    /\ cmd.out.raised = "none"
    /\ (cmd.outcome.kind = "exit" /\ ~cmd.check) => cmd.out.status = cmd.outcome.code
    /\ cmd.outcome.kind = "timeout" => cmd.out.status = 124
    /\ cmd.outcome.kind \in {"missing", "denied"} => cmd.out.status > 0

=========================================================================
